---- MODULE Spec2Model ----
(***************************************************************************)
(* State-machine model of the blockchat MCP server core: the client cache  *)
(* (services/clients.ts), the bridge_native_eth_across tool, the           *)
(* swap_tokens_1inch tool and the transfer tools (core/tools.ts,           *)
(* core/services/transfer.ts).                                             *)
(***************************************************************************)
EXTENDS Integers, Sequences, FiniteSets, TLC

\* ------------------------------------------------------------------ bounds
\* callers of getPublicClient that interleave at call granularity
NumCallers == 2
\* read clients that createPublicClient may construct in one run
MaxHandles == 3

\* tool invocations in flight at the same time
NumCalls == 1
\* progress events the bridging provider delivers to one executeQuote call
MaxEvents == 3

VARIABLES
  clientCache,   \* clients.ts:18  Map<string, PublicClient>: key -> handle
  nextHandle,    \* identity of the next object createPublicClient constructs
  ret,           \* per caller: the result of its last client-factory call
  wallets,       \* identities of the write clients constructed so far; each
                 \* holds the account derived from the signing key
  leaked,        \* shared places the signing key was written to
  acrossClientInstance, \* clients.ts:19  the memoized Across client, 0 = null
  env,           \* process.env: which secrets are set
  tool,          \* per invocation: the tool that was called, "none" before
  pc,            \* per invocation: the await the handler is suspended at
  outcome,       \* per invocation: how the handler's promise has settled
  io,            \* per invocation: the external calls issued so far, in order
  prov,          \* per invocation: what the bridging provider has done so far
  notified,      \* per invocation: progress notifications sent to the caller
  swap,          \* per invocation: the swap handler's arguments and locals
  amt,           \* the amount one token operation parses and returns
  ens,           \* per invocation: the name resolve_ens was given and
                 \* whether it has called resolveAddress
  page,          \* the chat page: its messages, viewport and scroll flag
  mgr,           \* the MCPClientManager singleton and its initialization
  getter         \* per caller: where its getClient call stands

cacheVars == <<clientCache, nextHandle, ret>>

keyVars == <<wallets, leaked>>

restVars == <<amt, ens, page, mgr, getter>>

callVars == <<tool, pc, outcome, io, prov, notified>>

vars ==
  <<clientCache, nextHandle, ret, wallets, leaked, acrossClientInstance, env,
    tool, pc, outcome, io, prov, notified, swap, amt, ens, page, mgr, getter>>

\* ------------------------------------------------------- network registry
\* A network argument as the call sites pass it: a string, or a number whose
\* decimal spelling is s.
Str(s) == [k |-> "string", s |-> s]
Num(s) == [k |-> "number", s |-> s]

Idents ==
  { Str("ethereum"), Str("mainnet"), Str("1"), Num("1"),
    Str("not-a-chain") }

\* chains.ts (not in the source tree): name, alias or numeric id -> chain id,
\* 0 when nothing matches.
resolveChainId(network) ==
  CASE network.s \in {"ethereum", "mainnet", "1"} -> 1
    [] network.s \in {"optimism", "10"} -> 10
    [] network.s \in {"arbitrum", "42161"} -> 42161
    [] network.s \in {"base", "8453"} -> 8453
    [] OTHER -> 0

\* chains.ts getChain: the chain of a known identifier; an unknown one fails
\* (UnsupportedNetwork), which in this code base is a throw.
getChainThrows(network) == resolveChainId(network) = 0

getChain(network) == resolveChainId(network)

\* ------------------------------------------------------------ client cache
\* JavaScript String(network): a number and its decimal spelling coincide.
String(network) == network.s

Callers == 1..NumCallers

NoRet == [kind |-> "none", ident |-> Str(""), handle |-> 0]

\* Where a construction may fail after the registry lookup succeeded.
ConstructionFaults == {"none", "getRpcUrl", "createPublicClient"}

\* getPublicClient, mutated: the cache entry is written before the client is
\* constructed, so a throwing construction leaves an entry behind.
getPublicClientEarlySet(network, fault) ==
  LET cacheKey == String(network) IN
  IF cacheKey \in DOMAIN clientCache
    THEN [threw |-> FALSE, handle |-> clientCache[cacheKey],
          cache |-> clientCache, next |-> nextHandle]
    ELSE LET cache2 == [k \in DOMAIN clientCache \cup {cacheKey} |->
                          IF k = cacheKey THEN nextHandle ELSE clientCache[k]]
         IN IF getChainThrows(network) \/ fault # "none"
              THEN [threw |-> TRUE, handle |-> 0,
                    cache |-> cache2, next |-> nextHandle + 1]
              ELSE [threw |-> FALSE, handle |-> nextHandle,
                    cache |-> cache2, next |-> nextHandle + 1]

\* getPublicClient, mutated: no lookup of the cache before constructing, so
\* every call constructs a client and overwrites the entry.
getPublicClientNoLookup(network, fault) ==
  LET cacheKey == String(network) IN
  IF getChainThrows(network) \/ fault # "none"
    THEN [threw |-> TRUE, handle |-> 0,
          cache |-> clientCache, next |-> nextHandle]
    ELSE [threw |-> FALSE, handle |-> nextHandle,
          cache |-> [k \in DOMAIN clientCache \cup {cacheKey} |->
                       IF k = cacheKey THEN nextHandle ELSE clientCache[k]],
          next |-> nextHandle + 1]

\* getPublicClient(network) as one synchronous run: the value it returns or
\* the fact that it threw, and the cache and allocation state it leaves.
getPublicClientRun(network, fault) ==
  LET cacheKey == String(network) IN
  IF cacheKey \in DOMAIN clientCache
    THEN [threw |-> FALSE, handle |-> clientCache[cacheKey],
          cache |-> clientCache, next |-> nextHandle]
    ELSE IF getChainThrows(network) \/ fault # "none"
      THEN [threw |-> TRUE, handle |-> 0,
            cache |-> clientCache, next |-> nextHandle]
      ELSE [threw |-> FALSE, handle |-> nextHandle,
            cache |-> [k \in DOMAIN clientCache \cup {cacheKey} |->
                         IF k = cacheKey THEN nextHandle ELSE clientCache[k]],
            next |-> nextHandle + 1]

\* Caller c calls getPublicClient(network). The function has no await, so the
\* whole call is one step whatever the interleaving of the callers.
GetPublicClient(c, network, fault) ==
  LET r == getPublicClientRun(network, fault) IN
  /\ r.next <= MaxHandles + 1
  /\ clientCache' = r.cache
  /\ nextHandle' = r.next
  /\ ret' = [ret EXCEPT ![c] =
               [kind |-> IF r.threw THEN "threw" ELSE "ok",
                ident |-> network, handle |-> r.handle]]
  /\ UNCHANGED <<keyVars, swap, acrossClientInstance, env, restVars, callVars>>

CallGetPublicClient ==
  \E c \in Callers, network \in Idents, fault \in ConstructionFaults :
    GetPublicClient(c, network, fault)

\* Where getWalletClient may fail after the registry lookup succeeded.
WalletFaults == {"none", "getRpcUrl", "privateKeyToAccount", "createWalletClient"}

\* getWalletClient, mutated: the write client is memoized in clientCache under
\* the network key, like a read client.
getWalletClientMemoized(network, fault) ==
  LET cacheKey == String(network) IN
  IF cacheKey \in DOMAIN clientCache /\ clientCache[cacheKey] \in wallets
    THEN [threw |-> FALSE, handle |-> clientCache[cacheKey],
          cache |-> clientCache, next |-> nextHandle, wallets |-> wallets]
    ELSE IF getChainThrows(network) \/ fault # "none"
      THEN [threw |-> TRUE, handle |-> 0, cache |-> clientCache,
            next |-> nextHandle, wallets |-> wallets]
      ELSE [threw |-> FALSE, handle |-> nextHandle,
            cache |-> [k \in DOMAIN clientCache \cup {cacheKey} |->
                         IF k = cacheKey THEN nextHandle ELSE clientCache[k]],
            next |-> nextHandle + 1, wallets |-> wallets \cup {nextHandle}]

\* clients.ts:50-60  getWalletClient(privateKey, network) as one synchronous
\* run: every call that does not throw constructs a new write client, and no
\* module-level structure is read or written.
getWalletClientRun(network, fault) ==
  IF getChainThrows(network) \/ fault # "none"
    THEN [threw |-> TRUE, handle |-> 0, cache |-> clientCache,
          next |-> nextHandle, wallets |-> wallets]
    ELSE [threw |-> FALSE, handle |-> nextHandle, cache |-> clientCache,
          next |-> nextHandle + 1, wallets |-> wallets \cup {nextHandle}]

\* Caller c calls getWalletClient(privateKey, network); no await, one step.
GetWalletClient(c, network, fault) ==
  LET r == getWalletClientRun(network, fault) IN
  /\ r.next <= MaxHandles + 1
  /\ clientCache' = r.cache
  /\ nextHandle' = r.next
  /\ wallets' = r.wallets
  /\ ret' = [ret EXCEPT ![c] =
               [kind |-> IF r.threw THEN "walletThrew" ELSE "wallet",
                ident |-> network, handle |-> r.handle]]
  /\ UNCHANGED <<leaked, swap, acrossClientInstance, env, restVars, callVars>>

WalletIdents == {Str("ethereum"), Num("1"), Str("not-a-chain")}

CallGetWalletClient ==
  \E c \in Callers, network \in WalletIdents, fault \in WalletFaults :
    GetWalletClient(c, network, fault)

\* the read-client calls that interleave with the write-client calls
CallGetPublicClientForWallet ==
  \E c \in Callers, network \in WalletIdents :
    GetPublicClient(c, network, "none")

InitCache ==
  /\ clientCache = <<>>
  /\ nextHandle = 1
  /\ ret = [c \in Callers |-> NoRet]
  /\ wallets = {}

\* ------------------------------------------------------------ key material
\* The values of a handler that are the signing key or are built from it.
KeyMaterial ==
  {"privateKey", "formattedKey", "formattedPk", "account", "walletClient"}

\* A set of values is written to a shared place (the process console, a
\* module-level variable): the place holds the key if one of them is key
\* material.
stored(place, values) ==
  IF values \cap KeyMaterial # {} THEN {place} ELSE {}

\* console.log / console.error with these arguments and interpolated values
Console(args) == leaked' = leaked \cup stored("console", args)

\* clients.ts:70-72  the options createAcrossClient is given
acrossClientOptions == {"chains"}

\* A handler calls getWalletClient(key, network) for a network it has looked
\* up; walletOk: no step of the call throws. reached: the handler gets to
\* the call in this step.
WalletBuilt(reached, walletOk) ==
  LET w == getWalletClientRun(Num("1"),
             IF walletOk THEN "none" ELSE "privateKeyToAccount") IN
  /\ reached => w.next <= MaxHandles + 1
  /\ clientCache' = IF reached THEN w.cache ELSE clientCache
  /\ nextHandle' = IF reached THEN w.next ELSE nextHandle
  /\ wallets' = IF reached THEN w.wallets ELSE wallets

\* ------------------------------------------------------- handler outcomes
Calls == 1..NumCalls

\* the invocations the server can hold: one more than the specifications of a
\* single tool run, for the specification of concurrent invocations
Slots == 1..(NumCalls + 1)

NoHash == "none"
Hashes == {"0xaa", "0xbb"}

\* The promise a tool handler returns. state: pending, fulfilled (a result
\* object was returned or passed to resolve) or rejected (an exception left
\* the handler, or a value was passed to reject). isError: the settled value
\* has isError: true. step: the pipeline stage the message text names.
Pending ==
  [state |-> "pending", isError |-> FALSE, text |-> "", step |-> "none",
   hash |-> NoHash]

\* return { content: [{type:'text', text}], isError: true }
ErrorResult(text) ==
  [state |-> "fulfilled", isError |-> TRUE, text |-> text, step |-> "none",
   hash |-> NoHash]

\* an exception that propagates out of the async handler: the promise is
\* rejected with the Error itself, which is no result object
Escaped(text) ==
  [state |-> "rejected", isError |-> FALSE, text |-> text, step |-> "none",
   hash |-> NoHash]

\* a callback run that calls neither resolve nor reject
NoAttempt ==
  [state |-> "none", isError |-> FALSE, text |-> "", step |-> "none",
   hash |-> NoHash]

\* a promise, mutated: every resolve or reject call replaces the settled value
settleKeepsLast(current, attempt) ==
  IF attempt.state = "none" THEN current ELSE attempt

\* tools.ts:96  new Promise((resolve, reject) => ...): the first resolve or
\* reject call settles the promise and later calls are ignored.
settle(current, attempt) ==
  IF attempt.state = "none" \/ current.state # "pending"
    THEN current ELSE attempt

\* ------------------------------------------------- bridge_native_eth_across
BridgeNetworks == {"ethereum", "optimism", "base", "not-a-chain"}

\* the WETH table, mutated: Base has an entry too
wethConfiguredWithBase(chainId) == chainId \in {1, 10, 42161, 8453}

\* tools.ts:60-64  chain ids that have a WETH address
wethConfigured(chainId) == chainId \in {1, 10, 42161}

\* the key test, mutated: the handler goes on without the secret
bridgeKeyMissingIgnored(e) == FALSE

\* tools.ts:43-46  the secret is absent

bridgeKeyMissing(e) == ~e.WALLET_PRIVATE_KEY

\* getAcrossClient, mutated: every call constructs a client
getAcrossClientRunFresh(instance) == instance + 1

\* clients.ts:65-75  the instance held after a call, which is also what the
\* call returns. An instance is identified by the ordinal of the
\* createAcrossClient call that constructed it.
getAcrossClientRun(instance) == IF instance # 0 THEN instance ELSE 1

Steps == {"approve", "deposit", "fill"}
Statuses == {"txPending", "txSuccess", "txError", "error"}

\* A progress value of the provider; only a txSuccess carries a receipt, and
\* hash is the receipt's transactionHash or NoHash when it is absent.
ProgressEvents ==
  { e \in [step : Steps, status : Statuses, hash : Hashes \cup {NoHash}] :
      e.status # "txSuccess" => e.hash = NoHash }

\* onProgress, mutated: a deposit success without a hash is only logged.
onProgressSkipsMissingHash(progress) ==
  IF progress.step = "deposit" /\ progress.status = "txSuccess"
    THEN IF progress.hash # NoHash
      THEN [state |-> "fulfilled", isError |-> FALSE,
            text |-> "Successfully initiated ETH bridge. Deposit Tx",
            step |-> "none", hash |-> progress.hash]
      ELSE NoAttempt
    ELSE IF progress.status \in {"txError", "error"}
      THEN [state |-> "rejected", isError |-> TRUE,
            text |-> "Bridging failed at step", step |-> progress.step,
            hash |-> NoHash]
      ELSE NoAttempt

\* onProgress, mutated: a successful approval resolves the call as well.
onProgressResolvesOnApprove(progress) ==
  IF progress.step \in {"approve", "deposit"} /\ progress.status = "txSuccess"
    THEN IF progress.hash # NoHash
      THEN [state |-> "fulfilled", isError |-> FALSE,
            text |-> "Successfully initiated ETH bridge. Deposit Tx",
            step |-> "none", hash |-> progress.hash]
      ELSE [state |-> "rejected", isError |-> TRUE,
            text |-> "Deposit transaction successful but no transaction hash found.",
            step |-> "deposit", hash |-> NoHash]
    ELSE IF progress.status \in {"txError", "error"}
      THEN [state |-> "rejected", isError |-> TRUE,
            text |-> "Bridging failed at step", step |-> progress.step,
            hash |-> NoHash]
      ELSE NoAttempt

\* onProgress, mutated: the call is resolved on the fill, not on the deposit.
onProgressResolvesOnFill(progress) ==
  IF progress.step = "fill" /\ progress.status = "txSuccess"
    THEN [state |-> "fulfilled", isError |-> FALSE,
          text |-> "Successfully initiated ETH bridge. Deposit Tx",
          step |-> "none", hash |-> progress.hash]
    ELSE IF progress.status \in {"txError", "error"}
      THEN [state |-> "rejected", isError |-> TRUE,
            text |-> "Bridging failed at step", step |-> progress.step,
            hash |-> NoHash]
      ELSE NoAttempt

\* tools.ts:100-123  the settlement onProgress attempts for one progress value
onProgress(progress) ==
  IF progress.step = "deposit" /\ progress.status = "txSuccess"
    THEN IF progress.hash # NoHash
      THEN [state |-> "fulfilled", isError |-> FALSE,
            text |-> "Successfully initiated ETH bridge. Deposit Tx",
            step |-> "none", hash |-> progress.hash]
      ELSE [state |-> "rejected", isError |-> TRUE,
            text |-> "Deposit transaction successful but no transaction hash found.",
            step |-> "deposit", hash |-> NoHash]
    ELSE IF progress.status \in {"txError", "error"}
      THEN [state |-> "rejected", isError |-> TRUE,
            text |-> "Bridging failed at step", step |-> progress.step,
            hash |-> NoHash]
      ELSE NoAttempt

\* tools.ts:124-127  the catch handler of executeQuote
executeQuoteCatch ==
  [state |-> "rejected", isError |-> TRUE, text |-> "Error executing quote",
   step |-> "none", hash |-> NoHash]

\* the resolvers, mutated: one pair shared by all invocations
progressTargetsAll(i) == Slots

\* tools.ts:96-100  resolve and reject are the parameters of the executor of
\* the promise this invocation created; onProgress closes over them, so the
\* only promise it can settle is its own invocation's
progressTargets(i) == {i}

NoProvider ==
  [n |-> 0, errSeen |-> FALSE, fillSeen |-> FALSE, completion |-> "none"]

\* tools.ts:39-87  the handler up to its first await. amountParses: parseEther
\* accepts the amount string (the schema's parseFloat test accepts strings,
\* such as "1abc", that parseEther rejects).
bridgeStartRun(origin, destination, amountParses) ==
  IF bridgeKeyMissing(env)
    THEN [pc |-> "done", io |-> <<>>, across |-> acrossClientInstance,
          outcome |-> ErrorResult("WALLET_PRIVATE_KEY environment variable is not set.")]
  ELSE LET across == getAcrossClientRun(acrossClientInstance) IN
    IF getChainThrows(Str(origin)) \/ getChainThrows(Str(destination))
      THEN [pc |-> "done", io |-> <<>>, across |-> across,
            outcome |-> Escaped("Unsupported network")]
    ELSE IF ~wethConfigured(getChain(Str(origin)))
      THEN [pc |-> "done", io |-> <<>>, across |-> across,
            outcome |-> ErrorResult("WETH address not configured for origin chain ID")]
    ELSE IF ~wethConfigured(getChain(Str(destination)))
      THEN [pc |-> "done", io |-> <<>>, across |-> across,
            outcome |-> ErrorResult("WETH address not configured for destination chain ID")]
    ELSE IF ~amountParses
      THEN [pc |-> "done", io |-> <<>>, across |-> across,
            outcome |-> Escaped("parseEther: invalid decimal number")]
    ELSE [pc |-> "getQuote", io |-> <<"getQuote">>, across |-> across,
          outcome |-> Pending]

\* tools.ts:76  what the handler logs before it asks for a quote
bridgeStartConsole == {"amountInEth", "originNetwork", "destinationNetwork"}

\* tools.ts:89, mutated: the write client is logged with the quote
bridgeQuoteConsoleWithWallet == {"quote", "walletClient"}

\* tools.ts:89  console.log('Quote received:', quote)
bridgeQuoteConsole == {"quote"}

\* tools.ts:101-120  what onProgress logs
bridgeProgressConsole ==
  {"progress.step", "progress.status", "progress.txReceipt.transactionHash",
   "progress.depositId", "progress.actionSuccess", "progress"}

\* tools.ts:125  console.error('Error executing quote:', error)
bridgeCatchConsole == {"error"}

\* clients.ts:65-75  caller c calls getAcrossClient
GetAcrossClient(c) ==
  /\ acrossClientInstance' = getAcrossClientRun(acrossClientInstance)
  /\ ret' = [ret EXCEPT ![c] =
       [kind |-> "across", ident |-> Str(""), handle |-> acrossClientInstance']]
  /\ leaked' = leaked \cup stored("acrossClientInstance", acrossClientOptions)
  /\ UNCHANGED <<clientCache, nextHandle, wallets, swap, env, restVars, callVars>>

CallGetAcrossClient == \E c \in Callers : GetAcrossClient(c)

BridgeStart(i, origin, destination, amountParses) ==
  LET r == bridgeStartRun(origin, destination, amountParses) IN
  /\ pc[i] = "idle"
  /\ tool' = [tool EXCEPT ![i] = "bridge_native_eth_across"]
  /\ pc' = [pc EXCEPT ![i] = r.pc]
  /\ io' = [io EXCEPT ![i] = r.io]
  /\ outcome' = [outcome EXCEPT ![i] = r.outcome]
  /\ acrossClientInstance' = r.across
  /\ Console(IF r.pc = "getQuote" THEN bridgeStartConsole ELSE {})
  /\ UNCHANGED <<cacheVars, wallets, swap, env, restVars, prov, notified>>

\* tools.ts:78-99  getQuote settles. A rejection propagates out of the handler
\* (no try/catch around the await). Otherwise the wallet client is built
\* (privateKeyToAccount throws on a malformed key) and executeQuote is called.
QuoteSettles(i, quoteOk, walletOk) ==
  /\ pc[i] = "getQuote"
  /\ tool[i] = "bridge_native_eth_across"
  /\ IF ~quoteOk
       THEN /\ outcome' = [outcome EXCEPT ![i] = Escaped("getQuote rejected")]
            /\ pc' = [pc EXCEPT ![i] = "done"]
            /\ UNCHANGED <<io, prov>>
       ELSE IF ~walletOk
         THEN /\ outcome' = [outcome EXCEPT ![i] = Escaped("getWalletClient threw")]
              /\ pc' = [pc EXCEPT ![i] = "done"]
              /\ UNCHANGED <<io, prov>>
         ELSE /\ pc' = [pc EXCEPT ![i] = "executeQuote"]
              /\ io' = [io EXCEPT ![i] = Append(@, "executeQuote")]
              /\ prov' = [prov EXCEPT ![i].completion = "running"]
              /\ UNCHANGED outcome
  /\ WalletBuilt(quoteOk, walletOk)
  /\ Console(IF quoteOk THEN bridgeQuoteConsole ELSE {})
  /\ UNCHANGED <<ret, swap, acrossClientInstance, env, restVars, tool, notified>>

\* The provider calls onProgress while executeQuote is running. The handler
\* writes console lines only: nothing is sent to the caller.
OnProgress(i, progress) ==
  /\ pc[i] = "executeQuote"
  /\ prov[i].n < MaxEvents
  /\ outcome' = [j \in Slots |->
       IF j \in progressTargets(i)
         THEN settle(outcome[j], onProgress(progress)) ELSE outcome[j]]
  /\ prov' = [prov EXCEPT ![i] =
       [n |-> @.n + 1,
        errSeen |-> @.errSeen \/ progress.status \in {"txError", "error"},
        fillSeen |-> @.fillSeen \/ progress.step = "fill",
        completion |-> @.completion]]
  /\ Console(bridgeProgressConsole)
  /\ UNCHANGED <<cacheVars, wallets, swap, acrossClientInstance, env, restVars, tool, pc, io, notified>>

\* The promise of executeQuote settles; a rejection runs the catch handler.
ExecuteQuoteSettles(i, ok) ==
  /\ pc[i] = "executeQuote"
  /\ pc' = [pc EXCEPT ![i] = "done"]
  /\ prov' = [prov EXCEPT ![i].completion = IF ok THEN "resolved" ELSE "rejected"]
  /\ outcome' = [outcome EXCEPT ![i] =
                   settle(@, IF ok THEN NoAttempt ELSE executeQuoteCatch)]
  /\ Console(IF ok THEN {} ELSE bridgeCatchConsole)
  /\ UNCHANGED <<cacheVars, wallets, swap, acrossClientInstance, env, restVars, tool, io, notified>>

BridgeStarts ==
  \E i \in Calls, origin \in BridgeNetworks, destination \in BridgeNetworks,
     amountParses \in BOOLEAN :
    BridgeStart(i, origin, destination, amountParses)

BridgeQuoteSettles ==
  \E i \in Calls, quoteOk \in BOOLEAN, walletOk \in BOOLEAN :
    QuoteSettles(i, quoteOk, walletOk)

BridgeProgress ==
  \E i \in Calls, progress \in ProgressEvents : OnProgress(i, progress)

BridgeExecuteQuoteSettles ==
  \E i \in Calls, ok \in BOOLEAN : ExecuteQuoteSettles(i, ok)

\* --------------------------------------------------------- swap_tokens_1inch
\* tools.ts:830  await delay(1100)
SwapDelayMs == 1100

\* tools.ts:770  slippage: z.number().min(0.01).max(50), in hundredths of a
\* percent
slippageMin == 1

slippageMax == 5000

\* tools.ts:767  the 1inch placeholder address of the chain's native asset
NativeToken == "0xEeeeeEeeeEeEeeEeEeEeeEEEeeeeEeeeeeeeEEeE"

SwapAmounts == {"0", "1000"}

\* hundredths of a percent: -1, 0.01, 1 (the default), 50 and 50.01
SwapSlippages == {-100, 1, 100, 5000, 5001}

SwapSources == {NativeToken, "0xToken"}

\* the arguments of one call: amount, slippage, fromTokenAddress
SwapArgs == [amount : SwapAmounts, slippage : SwapSlippages, src : SwapSources]

DefaultSwapArgs == [amount |-> "1000", slippage |-> 100, src |-> "0xToken"]

\* the schema, mutated: slippage has no lower limit
swapSchemaAcceptsNoMin(args) == args.slippage <= slippageMax

\* tools.ts:765-771  the argument schema: amount is any string, slippage is a
\* number from 0.01 to 50
swapSchemaAccepts(args) ==
  args.slippage >= slippageMin /\ args.slippage <= slippageMax

\* How an axios request fails: the response body's description and error
\* fields ("" when absent) and the message of the Error itself.
NoFailure == [description |-> "", error |-> "", message |-> ""]

HttpFailures ==
  [description : {"", "insufficient liquidity"}, error : {"", "Bad Request"},
   message : {"Request failed with status code 400"}]

\* tools.ts:824-825  the message of a failed spender lookup: e.message (the
\* errorMsg of line 823, which prefers the body's description, is not used)
spenderErrorDetail(f) == f.message

\* tools.ts:855  e.response?.data?.description || e.response?.data?.error ||
\* e.message
swapErrorDetail(f) ==
  IF f.description # "" THEN f.description
  ELSE IF f.error # "" THEN f.error
  ELSE f.message

\* The body of a GET /swap response: whether it has a tx object and the tx
\* fields, "" and "undefined" standing for an absent field.
NoQuote == [tx |-> FALSE, to |-> "", data |-> "", value |-> "none"]

SwapBodies ==
  { q \in [tx : BOOLEAN, to : {"", "0xRouter"}, data : {"", "0xCalldata"},
           value : {"undefined", "0", "1000", "abc"}] :
      ~q.tx => (q.to = "" /\ q.data = "" /\ q.value = "undefined") }

\* BigInt(string)
BigIntThrows(v) == v \notin {"0", "1000"}

BigInt(v) == CASE v = "0" -> 0 [] v = "1000" -> 1000 [] OTHER -> -1

\* the payload test, mutated: every body passes
swapTxValidAlways(txData) == TRUE

\* the payload test, mutated: tx.to is not tested
swapTxValidSkipsTo(txData) ==
  txData.tx /\ txData.data # "" /\ txData.value # "undefined"

\* tools.ts:862-863  !txData || !txData.to || !txData.data ||
\* typeof txData.value === 'undefined'
swapTxValid(txData) ==
  txData.tx /\ txData.to # "" /\ txData.data # "" /\ txData.value # "undefined"

\* tools.ts:869-878  the transaction request built from the quoted tx
swapTransactionRequest(txData) ==
  [to |-> txData.to, data |-> txData.data, value |-> BigInt(txData.value)]

\* What an HTTP call of the handler produces
HttpFailed(f) == [ok |-> FALSE, failure |-> f, body |-> NoQuote]

HttpOk(body) == [ok |-> TRUE, failure |-> NoFailure, body |-> body]

SpenderResults == {HttpFailed(f) : f \in HttpFailures} \cup {HttpOk(NoQuote)}

AllSwapResponses ==
  {HttpFailed(f) : f \in HttpFailures} \cup {HttpOk(q) : q \in SwapBodies}

\* What GET /swap may produce, one of each kind: a failed request, a body
\* without a tx object, a body whose tx.value BigInt() rejects, a complete
\* body.
SwapResponses ==
  { HttpFailed([description |-> "", error |-> "",
                message |-> "Request failed with status code 400"]),
    HttpOk([tx |-> FALSE, to |-> "", data |-> "", value |-> "undefined"]),
    HttpOk([tx |-> TRUE, to |-> "0xRouter", data |-> "0xCalldata", value |-> "abc"]),
    HttpOk([tx |-> TRUE, to |-> "0xRouter", data |-> "0xCalldata", value |-> "0"]) }

NoRequest == [src |-> "", amount |-> "", slippage |-> 0]

\* How sendTransaction fails: a viem error with its shortMessage ("" when
\* absent) and message.
NoSendError == [shortMessage |-> "", message |-> ""]

SendErrors ==
  [shortMessage : {"", "Execution reverted"},
   message : {"Execution reverted with reason: insufficient allowance"}]

\* the catch of the handler, mutated: the error's own message is dropped
swapFailedDetailGeneric(error) ==
  "An unknown error occurred during the swap process."

\* tools.ts:898  error.shortMessage || error.message
swapFailedDetail(error) ==
  IF error.shortMessage # "" THEN error.shortMessage ELSE error.message

\* the arguments and locals of a swap handler that has not run
NoSwap ==
  [amount |-> "", slippage |-> 0, src |-> "", spenderAddress |-> "",
   waits |-> <<>>, request |-> NoRequest, quote |-> NoQuote,
   submitted |-> <<>>, failure |-> NoFailure, sendError |-> NoSendError,
   detail |-> ""]

\* tools.ts:779, 790  the aggregator key is absent
swapApiKeyMissing(e) == ~e.ONEINCH_API_KEY

\* tools.ts:783  the signing key is absent
swapKeyMissing(e) == ~e.WALLET_PRIVATE_KEY

SwapNetworks == {"ethereum", "not-a-chain"}

\* tools.ts:780-806  the console lines of the handler's checks
swapStartConsole == {"errorMsg"}

\* tools.ts:824
swapSpenderConsole == {"e.message"}

\* tools.ts:835-837
swapDelayConsole == {"spenderAddress"}

\* tools.ts:858, 865, 899
swapQuoteConsole == {"errorMsg", "error"}

\* tools.ts:882-883, 899
swapSendConsole == {"hash", "swapApiResponseData", "errorMsg", "error"}

\* tools.ts:776-820  the handler up to its first await (GET /approve/spender)
swapStartRun(network, walletOk) ==
  IF swapApiKeyMissing(env)
    THEN [pc |-> "done", io |-> <<>>,
          outcome |-> ErrorResult("Server configuration error: Missing 1inch API key.")]
  ELSE IF swapKeyMissing(env)
    THEN [pc |-> "done", io |-> <<>>,
          outcome |-> ErrorResult("Server configuration error: Missing wallet private key.")]
  ELSE IF getChainThrows(Str(network))
    THEN [pc |-> "done", io |-> <<>>, outcome |-> Escaped("Unsupported network")]
  ELSE IF ~walletOk
    THEN [pc |-> "done", io |-> <<>>, outcome |-> Escaped("getWalletClient threw")]
  ELSE [pc |-> "spender", io |-> <<"GET /approve/spender">>, outcome |-> Pending]

\* The handler is entered with arguments the schema accepts.
SwapStart(i, args, network, walletOk) ==
  LET r == swapStartRun(network, walletOk) IN
  /\ pc[i] = "idle"
  /\ swapSchemaAccepts(args)
  /\ tool' = [tool EXCEPT ![i] = "swap_tokens_1inch"]
  /\ pc' = [pc EXCEPT ![i] = r.pc]
  /\ io' = [io EXCEPT ![i] = r.io]
  /\ outcome' = [outcome EXCEPT ![i] = r.outcome]
  /\ swap' = [swap EXCEPT ![i] =
       [NoSwap EXCEPT !.amount = args.amount, !.slippage = args.slippage,
                      !.src = args.src]]
  /\ WalletBuilt(/\ ~swapApiKeyMissing(env) /\ ~swapKeyMissing(env)
                 /\ ~getChainThrows(Str(network)), walletOk)
  /\ Console(swapStartConsole)
  /\ UNCHANGED <<ret, acrossClientInstance, env, restVars, prov, notified>>

\* tools.ts:765-771  arguments the schema rejects: the request is answered
\* with an invalid-arguments error and the handler is not entered
SwapRejected(i, args) ==
  /\ pc[i] = "idle"
  /\ ~swapSchemaAccepts(args)
  /\ tool' = [tool EXCEPT ![i] = "swap_tokens_1inch"]
  /\ pc' = [pc EXCEPT ![i] = "done"]
  /\ outcome' = [outcome EXCEPT ![i] = Escaped("Invalid arguments for tool")]
  /\ swap' = [swap EXCEPT ![i] =
       [NoSwap EXCEPT !.amount = args.amount, !.slippage = args.slippage,
                      !.src = args.src]]
  /\ UNCHANGED <<cacheVars, keyVars, acrossClientInstance, env, restVars, io, prov, notified>>

\* the catch of the spender lookup, mutated: the failure is reported but the
\* handler goes on
swapAfterSpenderContinues(result) == "delay"

\* tools.ts:819-830  where the handler is after the spender lookup settles:
\* at its delay, or returned from the catch block
swapAfterSpender(result) == IF result.ok THEN "delay" ELSE "done"

\* tools.ts:819-830  the spender lookup settles; on success the handler
\* starts its delay
SwapSpenderSettles(i, result) ==
  /\ pc[i] = "spender"
  /\ pc' = [pc EXCEPT ![i] = swapAfterSpender(result)]
  /\ IF result.ok
       THEN /\ swap' = [swap EXCEPT ![i].spenderAddress = "0xSpender"]
            /\ UNCHANGED outcome
       ELSE /\ swap' = [swap EXCEPT ![i].failure = result.failure,
                                    ![i].detail = spenderErrorDetail(result.failure)]
            /\ outcome' = [outcome EXCEPT ![i] =
                             ErrorResult("Error fetching 1inch spender")]
  /\ Console(IF result.ok THEN {} ELSE swapSpenderConsole)
  /\ UNCHANGED <<cacheVars, wallets, acrossClientInstance, env, restVars, tool, io, prov, notified>>

\* the allowance step, mutated: an ERC-20 source is approved for the spender
swapAllowanceApproves(src, spenderAddress) ==
  IF src = NativeToken THEN <<>>
  ELSE <<[to |-> src, data |-> "approve", value |-> 0]>>

\* tools.ts:832-838  the transactions of the allowance step: none, a note is
\* logged for an ERC-20 source and another for the native asset
swapAllowanceTransactions(src, spenderAddress) == <<>>

\* the delays, mutated: the handler does not wait
swapDelaysNone(issued) == <<>>

\* tools.ts:830  the delays between the spender lookup and the swap request,
\* each with its length and the number of external calls issued before it
swapDelays(issued) == <<[ms |-> SwapDelayMs, after |-> issued]>>

\* the query parameters, mutated: the amount is scaled to 18 decimals
swapApiParamsScaled(sw) ==
  [src |-> sw.src, amount |-> sw.amount \o "000000000000000000",
   slippage |-> sw.slippage]

\* tools.ts:840-849  the query parameters of GET /swap
swapApiParams(sw) ==
  [src |-> sw.src, amount |-> sw.amount, slippage |-> sw.slippage]

\* tools.ts:830-853  the timer fires; the handler logs the allowance note and
\* issues GET /swap
SwapDelayElapses(i) ==
  LET approvals == swapAllowanceTransactions(swap[i].src, swap[i].spenderAddress) IN
  /\ pc[i] = "delay"
  /\ pc' = [pc EXCEPT ![i] = "swap"]
  /\ io' = [io EXCEPT ![i] =
       @ \o [k \in 1..Len(approvals) |-> "sendTransaction"] \o <<"GET /swap">>]
  /\ swap' = [swap EXCEPT ![i].waits = @ \o swapDelays(Len(io[i])),
                          ![i].submitted = @ \o approvals,
                          ![i].request = swapApiParams(swap[i])]
  /\ Console(swapDelayConsole)
  /\ UNCHANGED <<cacheVars, wallets, acrossClientInstance, env, restVars, tool, outcome, prov, notified>>

\* the catch of the swap request, mutated: the handler waits and asks again
swapAfterQuoteFailsRetries == "delay"

\* tools.ts:854-860  where the handler is after GET /swap failed: returned
swapAfterQuoteFails == "done"

\* tools.ts:852-880  GET /swap settles; a complete body is turned into a
\* transaction request and submitted
SwapQuoteSettles(i, response) ==
  /\ pc[i] = "swap"
  /\ IF ~response.ok
       THEN /\ pc' = [pc EXCEPT ![i] = swapAfterQuoteFails]
            /\ outcome' = [outcome EXCEPT ![i] =
                             ErrorResult("Error fetching swap data from 1inch")]
            /\ swap' = [swap EXCEPT ![i].failure = response.failure,
                                    ![i].detail = swapErrorDetail(response.failure)]
            /\ UNCHANGED io
       ELSE IF ~swapTxValid(response.body)
         THEN /\ pc' = [pc EXCEPT ![i] = "done"]
              /\ outcome' = [outcome EXCEPT ![i] =
                   ErrorResult("Invalid swap data received from 1inch (missing tx fields).")]
              /\ swap' = [swap EXCEPT ![i].quote = response.body]
              /\ UNCHANGED io
         ELSE IF BigIntThrows(response.body.value)
           THEN /\ pc' = [pc EXCEPT ![i] = "done"]
                /\ outcome' = [outcome EXCEPT ![i] = ErrorResult("Swap failed")]
                /\ swap' = [swap EXCEPT ![i].quote = response.body,
                        ![i].detail = swapFailedDetail(
                           [shortMessage |-> "",
                            message |-> "Cannot convert to a BigInt"])]
                /\ UNCHANGED io
           ELSE /\ pc' = [pc EXCEPT ![i] = "swapSend"]
                /\ io' = [io EXCEPT ![i] = Append(@, "sendTransaction")]
                /\ swap' = [swap EXCEPT ![i].quote = response.body,
                        ![i].submitted =
                           Append(@, swapTransactionRequest(response.body))]
                /\ UNCHANGED outcome
  /\ Console(swapQuoteConsole)
  /\ UNCHANGED <<cacheVars, wallets, acrossClientInstance, env, restVars, tool, prov, notified>>

\* tools.ts:880-904  sendTransaction settles: fulfilled with a hash when
\* error is NoSendError, else rejected with error
SwapSendSettles(i, error, hash) ==
  /\ pc[i] = "swapSend"
  /\ pc' = [pc EXCEPT ![i] = "done"]
  /\ outcome' = [outcome EXCEPT ![i] =
       IF error = NoSendError
         THEN [state |-> "fulfilled", isError |-> FALSE,
               text |-> "Swap transaction submitted", step |-> "none",
               hash |-> hash]
         ELSE ErrorResult("Swap failed")]
  /\ swap' = IF error = NoSendError THEN swap
             ELSE [swap EXCEPT ![i].sendError = error,
                               ![i].detail = swapFailedDetail(error)]
  /\ Console(swapSendConsole)
  /\ UNCHANGED <<cacheVars, wallets, acrossClientInstance, env, restVars, tool, io, prov, notified>>

SwapStarts ==
  \E i \in Calls, network \in SwapNetworks, walletOk \in BOOLEAN :
    SwapStart(i, DefaultSwapArgs, network, walletOk)

SwapSpender ==
  \E i \in Calls, result \in SpenderResults : SwapSpenderSettles(i, result)

SwapDelay == \E i \in Calls : SwapDelayElapses(i)

SwapQuote == \E i \in Calls, response \in SwapResponses : SwapQuoteSettles(i, response)

SwapSend ==
  \E i \in Calls, error \in SendErrors \cup {NoSendError}, hash \in Hashes :
    SwapSendSettles(i, error, hash)

\* the same steps over every argument record and every response
SwapCalls ==
  \E i \in Calls, args \in SwapArgs, network \in SwapNetworks, walletOk \in BOOLEAN :
    SwapStart(i, args, network, walletOk)

SwapRejects == \E i \in Calls, args \in SwapArgs : SwapRejected(i, args)

SwapQuoteAny ==
  \E i \in Calls, response \in AllSwapResponses : SwapQuoteSettles(i, response)

\* ------------------------------------------------------------ transfer tools
\* tools.ts:552, 602, 665  the signing key is absent
transferKeyMissing(e) == ~e.WALLET_PRIVATE_KEY

\* ens.ts resolveAddress (not in the source tree): a canonical address is
\* returned unchanged without a lookup, a name is looked up with the name
\* service, anything else is rejected before any I/O.
AddressKinds == {"address", "name", "malformed"}

resolveAddressRejects(kind) == kind = "malformed"

resolveAddressLooksUp(kind) == kind = "name"

TransferTools == {"transfer_erc20", "approve_token_spending"}

TransferNetworks == {Str("ethereum"), Str("not-a-chain")}

\* every failure inside the tool's try block: tools.ts:576, 639, 702
Caught(text) == ErrorResult(text)

\* transfer.ts:71-84  transferETH after the recipient is resolved
transferEthSubmit(i, walletOk, amountParses) ==
  IF ~walletOk \/ ~amountParses
    THEN /\ pc' = [pc EXCEPT ![i] = "done"]
         /\ outcome' = [outcome EXCEPT ![i] = Caught("Error transferring ETH")]
         /\ UNCHANGED io
    ELSE /\ pc' = [pc EXCEPT ![i] = "ethSend"]
         /\ io' = [io EXCEPT ![i] = Append(@, "sendTransaction")]
         /\ UNCHANGED outcome

\* tools.ts:548-562, transfer.ts:62-69  transfer_eth up to its first I/O
TransferEthStart(i, toKind, walletOk, amountParses) ==
  /\ pc[i] = "idle"
  /\ tool' = [tool EXCEPT ![i] = "transfer_eth"]
  /\ IF transferKeyMissing(env)
       THEN /\ pc' = [pc EXCEPT ![i] = "done"]
            /\ outcome' = [outcome EXCEPT ![i] =
                 ErrorResult("Error: WALLET_PRIVATE_KEY environment variable is not set.")]
            /\ UNCHANGED io
       ELSE IF resolveAddressRejects(toKind)
         THEN /\ pc' = [pc EXCEPT ![i] = "done"]
              /\ outcome' = [outcome EXCEPT ![i] = Caught("Error transferring ETH")]
              /\ UNCHANGED io
         ELSE IF resolveAddressLooksUp(toKind)
           THEN /\ pc' = [pc EXCEPT ![i] = "ethResolve"]
                /\ io' = [io EXCEPT ![i] = Append(@, "ens lookup")]
                /\ UNCHANGED outcome
           ELSE transferEthSubmit(i, walletOk, amountParses)
  /\ WalletBuilt(/\ ~transferKeyMissing(env)
                 /\ ~resolveAddressRejects(toKind)
                 /\ ~resolveAddressLooksUp(toKind), walletOk)
  /\ UNCHANGED <<ret, leaked, swap, acrossClientInstance, env, restVars, prov, notified>>

\* the name lookup of transferETH settles
TransferEthResolved(i, ok, walletOk, amountParses) ==
  /\ pc[i] = "ethResolve"
  /\ IF ~ok
       THEN /\ pc' = [pc EXCEPT ![i] = "done"]
            /\ outcome' = [outcome EXCEPT ![i] = Caught("Error transferring ETH")]
            /\ UNCHANGED io
       ELSE transferEthSubmit(i, walletOk, amountParses)
  /\ WalletBuilt(ok, walletOk)
  /\ UNCHANGED <<ret, leaked, swap, acrossClientInstance, env, restVars, tool, prov, notified>>

\* transfer.ts:79-84, tools.ts:564-577  sendTransaction settles
TransferEthSent(i, ok, hash) ==
  /\ pc[i] = "ethSend"
  /\ pc' = [pc EXCEPT ![i] = "done"]
  /\ outcome' = [outcome EXCEPT ![i] =
       IF ok THEN [state |-> "fulfilled", isError |-> FALSE,
                   text |-> "success", step |-> "none", hash |-> hash]
             ELSE Caught("Error transferring ETH")]
  /\ UNCHANGED <<cacheVars, keyVars, swap, acrossClientInstance, env, restVars, tool, io, prov, notified>>

\* transfer.ts:123-131, 199-207  both addresses are resolved: the read client
\* is fetched from the cache and decimals() is read
erc20ReadDecimals(i, network, fault) ==
  LET r == getPublicClientRun(network, fault) IN
  /\ r.next <= MaxHandles + 1
  /\ clientCache' = r.cache
  /\ nextHandle' = r.next
  /\ IF r.threw
       THEN /\ pc' = [pc EXCEPT ![i] = "done"]
            /\ outcome' = [outcome EXCEPT ![i] = Caught("Error in token operation")]
            /\ UNCHANGED io
       ELSE /\ pc' = [pc EXCEPT ![i] = "erc20Decimals"]
            /\ io' = [io EXCEPT ![i] = Append(@, "read decimals")]
            /\ UNCHANGED outcome

\* transfer.ts:115, 191  the second address is resolved
erc20ResolveSecond(i, secondKind, network, fault) ==
  IF resolveAddressRejects(secondKind)
    THEN /\ pc' = [pc EXCEPT ![i] = "done"]
         /\ outcome' = [outcome EXCEPT ![i] = Caught("Error in token operation")]
         /\ UNCHANGED <<io, clientCache, nextHandle>>
    ELSE IF resolveAddressLooksUp(secondKind)
      THEN /\ pc' = [pc EXCEPT ![i] = "erc20Resolve2"]
           /\ io' = [io EXCEPT ![i] = Append(@, "ens lookup")]
           /\ UNCHANGED <<outcome, clientCache, nextHandle>>
      ELSE erc20ReadDecimals(i, network, fault)

\* tools.ts:598-624 / 661-686, transfer.ts:113-114 / 189-190  transfer_erc20
\* and approve_token_spending up to their first I/O
Erc20Start(i, t, tokenKind, secondKind, network, fault) ==
  /\ pc[i] = "idle"
  /\ tool' = [tool EXCEPT ![i] = t]
  /\ IF transferKeyMissing(env)
       THEN /\ pc' = [pc EXCEPT ![i] = "done"]
            /\ outcome' = [outcome EXCEPT ![i] =
                 ErrorResult("Error: WALLET_PRIVATE_KEY environment variable is not set.")]
            /\ UNCHANGED <<io, clientCache, nextHandle>>
       ELSE IF resolveAddressRejects(tokenKind)
         THEN /\ pc' = [pc EXCEPT ![i] = "done"]
              /\ outcome' = [outcome EXCEPT ![i] = Caught("Error in token operation")]
              /\ UNCHANGED <<io, clientCache, nextHandle>>
         ELSE IF resolveAddressLooksUp(tokenKind)
           THEN /\ pc' = [pc EXCEPT ![i] = "erc20Resolve1"]
                /\ io' = [io EXCEPT ![i] = Append(@, "ens lookup")]
                /\ UNCHANGED <<outcome, clientCache, nextHandle>>
           ELSE erc20ResolveSecond(i, secondKind, network, fault)
  /\ UNCHANGED <<ret, keyVars, swap, acrossClientInstance, env, restVars, prov, notified>>

\* the lookup of the token name settles
Erc20FirstResolved(i, ok, secondKind, network, fault) ==
  /\ pc[i] = "erc20Resolve1"
  /\ IF ~ok
       THEN /\ pc' = [pc EXCEPT ![i] = "done"]
            /\ outcome' = [outcome EXCEPT ![i] = Caught("Error in token operation")]
            /\ UNCHANGED <<io, clientCache, nextHandle>>
       ELSE erc20ResolveSecond(i, secondKind, network, fault)
  /\ UNCHANGED <<ret, keyVars, swap, acrossClientInstance, env, restVars, tool, prov, notified>>

\* the lookup of the recipient or spender name settles
Erc20SecondResolved(i, ok, network, fault) ==
  /\ pc[i] = "erc20Resolve2"
  /\ IF ~ok
       THEN /\ pc' = [pc EXCEPT ![i] = "done"]
            /\ outcome' = [outcome EXCEPT ![i] = Caught("Error in token operation")]
            /\ UNCHANGED <<io, clientCache, nextHandle>>
       ELSE erc20ReadDecimals(i, network, fault)
  /\ UNCHANGED <<ret, keyVars, swap, acrossClientInstance, env, restVars, tool, prov, notified>>

\* transfer.ts:131-132, 207-208  decimals() settles and symbol() is read
Erc20DecimalsRead(i, ok) ==
  /\ pc[i] = "erc20Decimals"
  /\ IF ~ok
       THEN /\ pc' = [pc EXCEPT ![i] = "done"]
            /\ outcome' = [outcome EXCEPT ![i] = Caught("Error in token operation")]
            /\ UNCHANGED io
       ELSE /\ pc' = [pc EXCEPT ![i] = "erc20Symbol"]
            /\ io' = [io EXCEPT ![i] = Append(@, "read symbol")]
            /\ UNCHANGED outcome
  /\ UNCHANGED <<cacheVars, keyVars, swap, acrossClientInstance, env, restVars, tool, prov, notified>>

\* the order, mutated: the wallet client is built before the amount is parsed
erc20WalletReachedBeforeParse(ok, amountParses) == ok

\* transfer.ts:132-138, 208-214  getWalletClient is called when symbol() has
\* returned and parseUnits has not thrown
erc20WalletReached(ok, amountParses) == ok /\ amountParses

\* transfer.ts:132-148, 208-224  symbol() settles; the amount is parsed, the
\* wallet client is built and the transaction is submitted
Erc20SymbolRead(i, ok, amountParses, walletOk) ==
  /\ pc[i] = "erc20Symbol"
  /\ IF ~ok \/ ~amountParses \/ ~walletOk
       THEN /\ pc' = [pc EXCEPT ![i] = "done"]
            /\ outcome' = [outcome EXCEPT ![i] = Caught("Error in token operation")]
            /\ UNCHANGED io
       ELSE /\ pc' = [pc EXCEPT ![i] = "erc20Write"]
            /\ io' = [io EXCEPT ![i] = Append(@, "writeContract")]
            /\ UNCHANGED outcome
  /\ WalletBuilt(erc20WalletReached(ok, amountParses), walletOk)
  /\ UNCHANGED <<ret, leaked, swap, acrossClientInstance, env, restVars, tool, prov, notified>>

\* transfer.ts:141-160, 217-236  writeContract settles
Erc20Written(i, ok, hash) ==
  /\ pc[i] = "erc20Write"
  /\ pc' = [pc EXCEPT ![i] = "done"]
  /\ outcome' = [outcome EXCEPT ![i] =
       IF ok THEN [state |-> "fulfilled", isError |-> FALSE,
                   text |-> "success", step |-> "none", hash |-> hash]
             ELSE Caught("Error in token operation")]
  /\ UNCHANGED <<cacheVars, keyVars, swap, acrossClientInstance, env, restVars, tool, io, prov, notified>>

TransferEthStarts ==
  \E i \in Calls, toKind \in AddressKinds, walletOk \in BOOLEAN,
     amountParses \in BOOLEAN :
    TransferEthStart(i, toKind, walletOk, amountParses)

TransferEthResolves ==
  \E i \in Calls, ok \in BOOLEAN, walletOk \in BOOLEAN, amountParses \in BOOLEAN :
    TransferEthResolved(i, ok, walletOk, amountParses)

TransferEthSends ==
  \E i \in Calls, ok \in BOOLEAN, hash \in Hashes : TransferEthSent(i, ok, hash)

Erc20Starts ==
  \E i \in Calls, t \in TransferTools, tokenKind \in AddressKinds,
     secondKind \in AddressKinds, network \in TransferNetworks,
     fault \in ConstructionFaults :
    Erc20Start(i, t, tokenKind, secondKind, network, fault)

Erc20FirstResolves ==
  \E i \in Calls, ok \in BOOLEAN, secondKind \in AddressKinds,
     network \in TransferNetworks, fault \in ConstructionFaults :
    Erc20FirstResolved(i, ok, secondKind, network, fault)

Erc20SecondResolves ==
  \E i \in Calls, ok \in BOOLEAN, network \in TransferNetworks,
     fault \in ConstructionFaults :
    Erc20SecondResolved(i, ok, network, fault)

Erc20Decimals == \E i \in Calls, ok \in BOOLEAN : Erc20DecimalsRead(i, ok)

Erc20Symbol ==
  \E i \in Calls, ok \in BOOLEAN, amountParses \in BOOLEAN, walletOk \in BOOLEAN :
    Erc20SymbolRead(i, ok, amountParses, walletOk)

Erc20Writes ==
  \E i \in Calls, ok \in BOOLEAN, hash \in Hashes : Erc20Written(i, ok, hash)

\* ------------------------------------------------------------ token amounts
\* Strings are sequences of characters.
NoAmount == [value |-> <<>>, decimals |-> 0, stage |-> "none", raw |-> 0,
             formatted |-> <<>>]

DigitChars == <<"0", "1", "2", "3", "4", "5", "6", "7", "8", "9">>

digitOf(c) == CHOOSE d \in 0..9 : DigitChars[d + 1] = c

\* BigInt(digits)
RECURSIVE digitsValue(_)
digitsValue(ds) ==
  IF ds = <<>> THEN 0
  ELSE digitsValue(SubSeq(ds, 1, Len(ds) - 1)) * 10 + digitOf(ds[Len(ds)])

\* bigint.toString()
RECURSIVE toString(_)
toString(n) ==
  IF n < 10 THEN <<DigitChars[n + 1]>>
  ELSE toString(n \div 10) \o <<DigitChars[(n % 10) + 1]>>

\* the position of the first '.', 0 when there is none
indexOfDot(v) ==
  IF \E k \in 1..Len(v) : v[k] = "."
    THEN CHOOSE k \in 1..Len(v) : v[k] = "." /\ \A j \in 1..(k - 1) : v[j] # "."
    ELSE 0

\* value.split('.'): the integer part and the fraction, '0' when absent
integerPart(v) ==
  IF indexOfDot(v) = 0 THEN v ELSE SubSeq(v, 1, indexOfDot(v) - 1)

fractionPart(v) ==
  IF indexOfDot(v) = 0 THEN <<"0">> ELSE SubSeq(v, indexOfDot(v) + 1, Len(v))

\* fraction.replace(/(0+)$/, '')
RECURSIVE trimTrailingZeros(_)
trimTrailingZeros(ds) ==
  IF ds # <<>> /\ ds[Len(ds)] = "0"
    THEN trimTrailingZeros(SubSeq(ds, 1, Len(ds) - 1))
    ELSE ds

padEnd(ds, n) == ds \o [k \in 1..(n - Len(ds)) |-> "0"]

padStart(ds, n) == [k \in 1..(n - Len(ds)) |-> "0"] \o ds

\* viem parseUnits(value, decimals) for a decimal string whose fraction has
\* at most `decimals` significant digits: the fraction is stripped of
\* trailing zeros, padded to `decimals` digits and appended to the integer
\* part
parseUnits(value, decimals) ==
  digitsValue(integerPart(value)
                \o padEnd(trimTrailingZeros(fractionPart(value)), decimals))

\* viem formatUnits(value, decimals): the digits are padded to `decimals`,
\* split, and the fraction is stripped of trailing zeros
formatUnits(value, decimals) ==
  LET display == padStart(toString(value), decimals)
      integer == SubSeq(display, 1, Len(display) - decimals)
      fraction == trimTrailingZeros(
                    SubSeq(display, Len(display) - decimals + 1, Len(display)))
  IN (IF integer = <<>> THEN <<"0">> ELSE integer)
       \o (IF fraction = <<>> THEN <<>> ELSE <<".">> \o fraction)

\* amount strings: an integer part and an optional fraction of up to two
\* digits
IntegerParts == {<<"0">>, <<"1">>, <<"1", "0">>, <<"1", "2">>}

FractionParts ==
  {<<>>, <<"5">>, <<"5", "0">>, <<"0", "5">>, <<"2", "5">>}

AmountStrings ==
  { ip \o (IF fp = <<>> THEN <<>> ELSE <<".">> \o fp) :
      ip \in IntegerParts, fp \in FractionParts }

\* what decimals() of a token returns
TokenDecimals == {2, 6}

\* transfer.ts:135, 211  rawAmount = parseUnits(amount, decimals)
ParseAmount ==
  /\ amt.stage = "input"
  /\ amt' = [amt EXCEPT !.stage = "parsed",
                        !.raw = parseUnits(amt.value, amt.decimals)]
  /\ UNCHANGED <<cacheVars, keyVars, acrossClientInstance, env, callVars, swap, ens, page, mgr, getter>>

\* transfer.ts:150-160, 226-236  the result: amount: { raw: rawAmount,
\* formatted: amount }
ReturnAmount ==
  /\ amt.stage = "parsed"
  /\ amt' = [amt EXCEPT !.stage = "returned", !.formatted = amt.value]
  /\ UNCHANGED <<cacheVars, keyVars, acrossClientInstance, env, callVars, swap, ens, page, mgr, getter>>

\* transferERC20 / approveERC20 are called with an amount for a token
InitAmount ==
  amt \in { [NoAmount EXCEPT !.value = v, !.decimals = d, !.stage = "input"] :
            v \in AmountStrings, d \in TokenDecimals }

\* -------------------------------------------------------------- resolve_ens
\* tools.ts:171-215
NoEns == [ensName |-> <<>>, resolveAddressCalled |-> FALSE]

\* the names resolve_ens is called with: with and without a dot, empty, and
\* an address-like string
EnsNames ==
  {<<>>, <<"a">>, <<"0", "x">>, <<".">>, <<"a", ".", "e">>, <<"a", ".", ".">>}

\* String.prototype.includes for a one-character search string
includes(str, ch) == \E k \in 1..Len(str) : str[k] = ch

\* the validation, mutated: every input passes
ensNameAcceptedAlways(ensName) == TRUE

\* tools.ts:181  if (!ensName.includes('.')) return the error result
ensNameAccepted(ensName) == includes(ensName, ".")

\* tools.ts:179-194  resolve_ens up to its first await. normalizes: whether
\* normalize(ensName) returns rather than throws. resolveAddress, called with
\* a dotted name, looks the name up with the name service.
ResolveEnsStart(i, ensName, normalizes) ==
  /\ pc[i] = "idle"
  /\ tool' = [tool EXCEPT ![i] = "resolve_ens"]
  /\ IF ~ensNameAccepted(ensName)
       THEN /\ pc' = [pc EXCEPT ![i] = "done"]
            /\ outcome' = [outcome EXCEPT ![i] =
                 ErrorResult("Error: Input is not a valid ENS name. ENS names must contain a dot")]
            /\ ens' = [ens EXCEPT ![i] = [NoEns EXCEPT !.ensName = ensName]]
            /\ UNCHANGED io
       ELSE IF ~normalizes
         THEN /\ pc' = [pc EXCEPT ![i] = "done"]
              /\ outcome' = [outcome EXCEPT ![i] = Caught("Error resolving ENS name")]
              /\ ens' = [ens EXCEPT ![i] = [NoEns EXCEPT !.ensName = ensName]]
              /\ UNCHANGED io
         ELSE /\ pc' = [pc EXCEPT ![i] = "ensResolve"]
              /\ ens' = [ens EXCEPT ![i] =
                   [ensName |-> ensName, resolveAddressCalled |-> TRUE]]
              /\ io' = [io EXCEPT ![i] = Append(@, "ens lookup")]
              /\ UNCHANGED outcome
  /\ UNCHANGED <<cacheVars, keyVars, swap, acrossClientInstance, env, amt, page, mgr, getter, prov, notified>>

\* tools.ts:194-214  resolveAddress settles
ResolveEnsSettles(i, ok) ==
  /\ pc[i] = "ensResolve"
  /\ pc' = [pc EXCEPT ![i] = "done"]
  /\ outcome' = [outcome EXCEPT ![i] =
       IF ok THEN [state |-> "fulfilled", isError |-> FALSE,
                   text |-> "resolvedAddress", step |-> "none", hash |-> NoHash]
             ELSE Caught("Error resolving ENS name")]
  /\ UNCHANGED <<cacheVars, keyVars, swap, acrossClientInstance, env, restVars, tool, io, prov, notified>>

ResolveEnsStarts ==
  \E i \in Slots, ensName \in EnsNames, normalizes \in BOOLEAN :
    ResolveEnsStart(i, ensName, normalizes)

ResolveEnsSettled == \E i \in Slots, ok \in BOOLEAN : ResolveEnsSettles(i, ok)

\* --------------------------------------------------------- MCPClientManager
\* initializations one run may start
MaxInits == 4

InitIds == 1..MaxInits

\* mcp-client-manager.ts:12-16  the singleton's fields. initPromise is the
\* number of the initialization whose promise it holds, 0 for null; stage is
\* where the executor of each initialization stands; settled are the
\* initializations whose promise has been resolved; mcpClient is the number of
\* the initialization that created the client, 0 for undefined.
NewManager ==
  [mcpClient |-> 0, tools |-> FALSE, isInitializing |-> FALSE,
   initPromise |-> 0, started |-> 0,
   stage |-> [p \in InitIds |-> "none"], settled |-> {}]

\* a request handler (route.ts:24-26): where its getClient call stands, what
\* the call returned and what the getTools call that follows it returned
IdleGetter == [pc |-> "idle", awaiting |-> 0, result |-> 0, tools |-> FALSE]

\* mcp-client-manager.ts:46-48  getTools returns this.tools
getTools(m) == m.tools

\* getClient, mutated: a client that is set is returned even while its
\* initialization is still fetching the tools
getClientBranchReturnsSetClient(m) ==
  IF m.mcpClient = 0 /\ ~m.isInitializing THEN "initialize"
  ELSE IF m.mcpClient = 0 /\ m.isInitializing /\ m.initPromise # 0 THEN "wait"
  ELSE "return"

\* getClient, mutated: isInitializing is not consulted before initialize()
getClientBranchUnguarded(m) ==
  IF m.mcpClient = 0 THEN "initialize"
  ELSE IF m.isInitializing /\ m.initPromise # 0 THEN "wait"
  ELSE "return"

\* mcp-client-manager.ts:34-39  which branch a getClient call takes
getClientBranch(m) ==
  IF m.mcpClient = 0 /\ ~m.isInitializing THEN "initialize"
  ELSE IF m.isInitializing /\ m.initPromise # 0 THEN "wait"
  ELSE "return"

\* mcp-client-manager.ts:61  initialize() returns at once, without a promise
initializeSkips(m) == m.isInitializing

\* mcp-client-manager.ts:63-75  initialize() up to the executor's first await
initializeRun(m) ==
  LET p == m.started + 1 IN
  [m EXCEPT !.isInitializing = TRUE, !.initPromise = p, !.started = p,
            !.stage = [@ EXCEPT ![p] = "connecting"]]

\* the catch block, mutated: the client is not cleared
initializeFailsKeepsClient(m, p) ==
  [m EXCEPT !.tools = FALSE, !.isInitializing = FALSE,
            !.stage = [@ EXCEPT ![p] = "failed"], !.settled = @ \cup {p}]

\* mcp-client-manager.ts:81-88  the catch and finally blocks of executor p
initializeFails(m, p) ==
  [m EXCEPT !.mcpClient = 0, !.tools = FALSE, !.isInitializing = FALSE,
            !.stage = [@ EXCEPT ![p] = "failed"], !.settled = @ \cup {p}]

\* mcp-client-manager.ts:35-38  the getClient calls whose awaited promise has
\* been resolved and whose continuation has not run yet. A continuation is a
\* promise job: the runtime runs it before it delivers the next I/O
\* completion (the reply of the spawned server to createMCPClient or tools()).
resumable(m, g) ==
  {c \in Callers : g[c].pc = "waiting" /\ g[c].awaiting \in m.settled}

\* mcp-client-manager.ts:33-41  caller c calls getClient: the call runs to its
\* first await, or returns the client when it awaits nothing
GetClient(c) ==
  LET branch == getClientBranch(mgr) IN
  /\ getter[c].pc \in {"idle", "returned"}
  /\ CASE branch = "initialize" /\ ~initializeSkips(mgr) ->
            /\ mgr.started < MaxInits
            /\ mgr' = initializeRun(mgr)
            /\ getter' = [getter EXCEPT ![c] =
                 [pc |-> "waiting", awaiting |-> mgr.started + 1, result |-> 0, tools |-> FALSE]]
       [] branch = "wait" ->
            /\ getter' = [getter EXCEPT ![c] =
                 [pc |-> "waiting", awaiting |-> mgr.initPromise, result |-> 0, tools |-> FALSE]]
            /\ UNCHANGED mgr
       [] OTHER ->
            /\ getter' = [getter EXCEPT ![c] =
                 [pc |-> "returned", awaiting |-> 0, result |-> mgr.mcpClient,
                  tools |-> getTools(mgr)]]
            /\ UNCHANGED mgr
  /\ UNCHANGED <<cacheVars, keyVars, acrossClientInstance, env, callVars, swap, amt, ens, page>>

\* mcp-client-manager.ts:73-78  experimental_createMCPClient settles for
\* executor p; on success the client is stored and tools() is requested
CreateClientSettles(p, ok) ==
  /\ mgr.stage[p] = "connecting"
  /\ resumable(mgr, getter) = {}
  /\ mgr' = IF ok
       THEN [mgr EXCEPT !.mcpClient = p, !.stage = [@ EXCEPT ![p] = "tools"]]
       ELSE initializeFails(mgr, p)
  /\ UNCHANGED <<cacheVars, keyVars, acrossClientInstance, env, callVars, swap, amt, ens, page, getter>>

\* mcp-client-manager.ts:78-88  tools() settles for executor p
ToolsSettle(p, ok) ==
  /\ mgr.stage[p] = "tools"
  /\ resumable(mgr, getter) = {}
  /\ mgr' = IF ok
       THEN [mgr EXCEPT !.tools = TRUE, !.isInitializing = FALSE,
                        !.stage = [@ EXCEPT ![p] = "succeeded"],
                        !.settled = @ \cup {p}]
       ELSE initializeFails(mgr, p)
  /\ UNCHANGED <<cacheVars, keyVars, acrossClientInstance, env, callVars, swap, amt, ens, page, getter>>

\* mcp-client-manager.ts:35-40  the promise caller c awaits is resolved: the
\* call resumes and returns this.mcpClient
GetClientResumes(c) ==
  /\ getter[c].pc = "waiting"
  /\ getter[c].awaiting \in mgr.settled
  /\ getter' = [getter EXCEPT ![c] =
       [pc |-> "returned", awaiting |-> 0, result |-> mgr.mcpClient,
                  tools |-> getTools(mgr)]]
  /\ UNCHANGED <<cacheVars, keyVars, acrossClientInstance, env, callVars, swap, amt, ens, page, mgr>>

GetClients == \E c \in Callers : GetClient(c)

CreateClientSettled == \E p \in InitIds, ok \in BOOLEAN : CreateClientSettles(p, ok)

ToolsSettled == \E p \in InitIds, ok \in BOOLEAN : ToolsSettle(p, ok)

GetClientsResume == \E c \in Callers : GetClientResumes(c)

InitManager ==
  /\ mgr = NewManager
  /\ getter = [c \in Callers |-> IdleGetter]

\* ----------------------------------------------------------------- chat page
\* page.tsx:85-141  the viewport is measured in rows: clientHeight rows are
\* visible of scrollHeight rows of content.
MaxScrollHeight == 6

ClientHeight == 2

\* The page after it is mounted: no message, all content visible, the flag
\* false. last: the role of the last message; scrollPending: the position
\* changed and the scroll event has not been dispatched yet; lastScroll:
\* where the last scroll event found the viewport; resetSince: the effect
\* has cleared the flag since that event.
NewPage ==
  [last |-> "none", scrollTop |-> 0, scrollHeight |-> ClientHeight,
   userHasManuallyScrolled |-> FALSE, scrollPending |-> FALSE,
   lastScroll |-> "none", resetSince |-> FALSE]

Roles == {"user", "assistant"}

\* the largest scrollTop the viewport can have
maxScrollTop(p) == p.scrollHeight - ClientHeight

\* page.tsx:96  scrollHeight - clientHeight <= scrollTop + 1
isAtBottom(p) == p.scrollHeight - ClientHeight <= p.scrollTop + 1

\* page.tsx:129, 136  viewport.scrollTop = viewport.scrollHeight: the browser
\* clamps the position and queues a scroll event when it changed
scrollToBottom(p) ==
  [p EXCEPT !.scrollTop = maxScrollTop(p),
            !.scrollPending = @ \/ p.scrollTop # maxScrollTop(p)]

\* the effect, mutated: a message that is not the user's always scrolls
autoScrollIgnoresFlag(p) ==
  [scrollToBottom(p) EXCEPT
     !.userHasManuallyScrolled = IF p.last = "user" THEN FALSE ELSE @,
     !.resetSince = @ \/ (p.last = "user" /\ p.userHasManuallyScrolled)]

\* page.tsx:122-141  the auto-scroll effect
autoScroll(p) ==
  IF p.last = "user"
    THEN [scrollToBottom(p) EXCEPT
            !.userHasManuallyScrolled = FALSE,
            !.resetSince = @ \/ p.userHasManuallyScrolled]
  ELSE IF ~p.userHasManuallyScrolled THEN scrollToBottom(p)
  ELSE p

\* page.tsx:91-99  the scroll listener
handleViewportScroll(p) ==
  [p EXCEPT !.userHasManuallyScrolled = ~isAtBottom(p),
            !.lastScroll = IF isAtBottom(p) THEN "bottom" ELSE "away",
            !.scrollPending = FALSE,
            !.resetSince = FALSE]

\* useChat delivers a new message list: a message of this role was added or
\* the last one grew by `rows`; the page renders and the effect runs
MessagesChange(role, rows) ==
  /\ page.scrollHeight + rows <= MaxScrollHeight
  /\ page' = autoScroll([page EXCEPT !.last = role, !.scrollHeight = @ + rows])
  /\ UNCHANGED <<cacheVars, keyVars, acrossClientInstance, env, callVars, swap, amt, ens, mgr, getter>>

\* the user moves the viewport; the browser queues a scroll event
UserScrolls(top) ==
  /\ top # page.scrollTop
  /\ page' = [page EXCEPT !.scrollTop = top, !.scrollPending = TRUE]
  /\ UNCHANGED <<cacheVars, keyVars, acrossClientInstance, env, callVars, swap, amt, ens, mgr, getter>>

\* the scroll event is dispatched: the listener runs, and when it changed the
\* flag the page renders again and the effect runs (page.tsx:141, the flag
\* is a dependency of the effect)
ScrollEvent ==
  LET q == handleViewportScroll(page) IN
  /\ page.scrollPending
  /\ page' = IF q.userHasManuallyScrolled # page.userHasManuallyScrolled
               THEN autoScroll(q) ELSE q
  /\ UNCHANGED <<cacheVars, keyVars, acrossClientInstance, env, callVars, swap, amt, ens, mgr, getter>>

MessagesChanged == \E role \in Roles, rows \in {0, 1} : MessagesChange(role, rows)

UserScrolled == \E top \in 0..maxScrollTop(page) : UserScrolls(top)

InitPage == page = NewPage

\* ---------------------------------------------------------- specifications
Envs == [WALLET_PRIVATE_KEY : BOOLEAN, ONEINCH_API_KEY : BOOLEAN]

\* tools.ts:11 runs getAcrossClient when the module is loaded, so the Across
\* client exists before any tool is called.
InitInvocations ==
  /\ env \in Envs
  /\ tool = [i \in Slots |-> "none"]
  /\ pc = [i \in Slots |-> "idle"]
  /\ outcome = [i \in Slots |-> Pending]
  /\ io = [i \in Slots |-> <<>>]
  /\ prov = [i \in Slots |-> NoProvider]
  /\ notified = [i \in Slots |-> 0]
  /\ swap = [i \in Slots |-> NoSwap]
  /\ ens = [i \in Slots |-> NoEns]

InitCalls ==
  /\ acrossClientInstance = getAcrossClientRun(0)
  /\ leaked = stored("acrossClientInstance", acrossClientOptions)
  /\ InitInvocations

Init == InitCache /\ InitCalls /\ InitManager /\ InitPage /\ amt = NoAmount

NextCache == CallGetPublicClient

NextWallet ==
  \/ CallGetWalletClient
  \/ CallGetPublicClientForWallet

\* getPublicClient under concurrent callers; no tool runs, so the secrets do
\* not matter and are taken as set
InitCacheOnly == Init /\ env = [WALLET_PRIVATE_KEY |-> TRUE, ONEINCH_API_KEY |-> TRUE]

SpecCache == InitCacheOnly /\ [][NextCache]_vars

\* clients.ts:18-19  the module clients.ts is loaded and none of its
\* functions has been called: the cache is empty and the Across client null
InitClients ==
  /\ InitCache /\ InitInvocations /\ InitManager /\ InitPage /\ amt = NoAmount
  /\ acrossClientInstance = 0
  /\ leaked = {}
  /\ env = [WALLET_PRIVATE_KEY |-> TRUE, ONEINCH_API_KEY |-> TRUE]

NextClients ==
  \/ CallGetPublicClient
  \/ CallGetAcrossClient

\* getAcrossClient and getPublicClient called by concurrent callers from the
\* moment the module is loaded
SpecClients == InitClients /\ [][NextClients]_vars

\* getWalletClient and getPublicClient under concurrent callers
SpecWallet == InitCacheOnly /\ [][NextWallet]_vars

NextBridge ==
  \/ BridgeStarts
  \/ BridgeQuoteSettles
  \/ BridgeProgress
  \/ BridgeExecuteQuoteSettles

\* invocations of bridge_native_eth_across
SpecBridge == Init /\ [][NextBridge]_vars

\* the same, for providers whose executeQuote promise eventually completes
SpecBridgeFair == SpecBridge /\ WF_vars(BridgeExecuteQuoteSettles)

NextTools ==
  \/ NextBridge
  \/ SwapStarts
  \/ SwapSpender
  \/ SwapDelay
  \/ SwapQuote
  \/ SwapSend
  \/ TransferEthStarts
  \/ TransferEthResolves
  \/ TransferEthSends
  \/ Erc20Starts
  \/ Erc20FirstResolves
  \/ Erc20SecondResolves
  \/ Erc20Decimals
  \/ Erc20Symbol
  \/ Erc20Writes

NextSwap ==
  \/ SwapCalls
  \/ SwapRejects
  \/ SwapSpender
  \/ SwapDelay
  \/ SwapQuoteAny
  \/ SwapSend

\* invocations of swap_tokens_1inch over all arguments and responses
SpecSwap == Init /\ [][NextSwap]_vars

NextManager ==
  \/ GetClients
  \/ CreateClientSettled
  \/ ToolsSettled
  \/ GetClientsResume

\* concurrent getClient calls on the MCPClientManager singleton
SpecManager == InitCacheOnly /\ [][NextManager]_vars

\* the inputs of the concurrent invocations: a bridge from mainnet to
\* Optimism and the default swap on mainnet, with a deposit that succeeds or
\* a fill that fails, and a swap request that succeeds or fails
ConcurrentProgress ==
  { [step |-> "deposit", status |-> "txSuccess", hash |-> "0xaa"],
    [step |-> "fill", status |-> "error", hash |-> NoHash] }

ConcurrentResponses ==
  { HttpFailed([description |-> "", error |-> "",
                message |-> "Request failed with status code 400"]),
    HttpOk([tx |-> TRUE, to |-> "0xRouter", data |-> "0xCalldata", value |-> "0"]) }

\* every step invocation i can take
Step(i) ==
  \/ BridgeStart(i, "ethereum", "optimism", TRUE)
  \/ \E quoteOk \in BOOLEAN : QuoteSettles(i, quoteOk, TRUE)
  \/ \E progress \in ConcurrentProgress : OnProgress(i, progress)
  \/ \E ok \in BOOLEAN : ExecuteQuoteSettles(i, ok)
  \/ SwapStart(i, DefaultSwapArgs, "ethereum", TRUE)
  \/ SwapSpenderSettles(i, HttpOk(NoQuote))
  \/ SwapDelayElapses(i)
  \/ \E response \in ConcurrentResponses : SwapQuoteSettles(i, response)
  \/ \E error \in {NoSendError, [shortMessage |-> "", message |-> "Execution reverted with reason: insufficient allowance"]} :
       SwapSendSettles(i, error, "0xbb")

NextConcurrent == \E i \in Slots : Step(i)

\* bridge and swap invocations that overlap on one server
SpecConcurrent == InitCacheOnly /\ [][NextConcurrent]_vars

NextPage ==
  \/ MessagesChanged
  \/ UserScrolled
  \/ ScrollEvent

\* the chat page under message updates and scrolling
SpecPage == InitCacheOnly /\ [][NextPage]_vars

NextEns ==
  \/ ResolveEnsStarts
  \/ ResolveEnsSettled

\* concurrent invocations of resolve_ens
SpecEns == Init /\ [][NextEns]_vars

NextAmount ==
  \/ ParseAmount
  \/ ReturnAmount

\* the amount of one transferERC20 / approveERC20 call, over amount strings
\* and token decimals
InitTokenOperation ==
  /\ InitCache /\ InitCalls /\ InitManager /\ InitPage /\ InitAmount
  /\ env = [WALLET_PRIVATE_KEY |-> TRUE, ONEINCH_API_KEY |-> TRUE]

SpecAmount == InitTokenOperation /\ [][NextAmount]_vars

\* invocations of the tools that need a secret
SpecTools == Init /\ [][NextTools]_vars

\* ------------------------------------------------------------------ claims
Bridge == "bridge_native_eth_across"

DepositSuccess(h) == [step |-> "deposit", status |-> "txSuccess", hash |-> h]

\* C1 as stated: in every step that delivers a deposit success event with a
\* transaction hash to a bridge call to which no error event was delivered
\* before, the call is resolved successfully with that hash.
C1_DepositSuccessResolves ==
  [][\A i \in Calls, h \in Hashes :
       (OnProgress(i, DepositSuccess(h)) /\ ~prov[i].errSeen)
         => (outcome'[i].state = "fulfilled" /\ ~outcome'[i].isError
             /\ outcome'[i].hash = h)]_vars

\* C1 amended: the same, for a call that has not settled yet when the event
\* arrives (no error event and no earlier deposit success event, with or
\* without a hash, was delivered before it).
C1_DepositSuccessResolvesUnsettled ==
  [][\A i \in Calls, h \in Hashes :
       (OnProgress(i, DepositSuccess(h)) /\ outcome[i].state = "pending")
         => (outcome'[i].state = "fulfilled" /\ ~outcome'[i].isError
             /\ outcome'[i].hash = h)]_vars

\* C1 witness: a bridge call resolved with a deposit hash whose executeQuote
\* has completed without any fill event and without any error event.
C1_Witness ==
  \E i \in Calls :
    /\ tool[i] = Bridge /\ pc[i] = "done"
    /\ prov[i].completion = "resolved"
    /\ ~prov[i].fillSeen /\ ~prov[i].errSeen
    /\ outcome[i].state = "fulfilled" /\ outcome[i].hash \in Hashes

\* C2: in every step in which getQuote fails, the call settles to a returned
\* failure result tagged with the quoting stage, and executeQuote is not
\* called.
C2_QuoteFailureIsTaggedResult ==
  [][\A i \in Calls, walletOk \in BOOLEAN :
       QuoteSettles(i, FALSE, walletOk)
         => (/\ outcome'[i].state = "fulfilled"
             /\ outcome'[i].isError
             /\ outcome'[i].step = "quoting"
             /\ \A k \in 1..Len(io'[i]) : io'[i][k] # "executeQuote")]_vars

\* C3: once the promise of a bridge call has settled, no later step (a
\* progress event of any kind, a rejection of executeQuote) changes the
\* settled outcome.
C3_SettledOnce ==
  [][\A i \in Calls :
       outcome[i].state # "pending" => outcome'[i] = outcome[i]]_vars

\* C3 witness: a call that resolved on a deposit and afterwards received a
\* fill event and an error event and saw executeQuote reject.
C3_Witness ==
  \E i \in Calls :
    /\ tool[i] = Bridge
    /\ outcome[i].state = "fulfilled" /\ outcome[i].hash \in Hashes
    /\ prov[i].fillSeen /\ prov[i].errSeen
    /\ prov[i].completion = "rejected"

\* C4: every failure of a bridge call that reached executeQuote is a tagged
\* error that names the failing stage, and every success carries the deposit
\* transaction hash.
C4_FailureNamesStage ==
  \A i \in Calls :
    (tool[i] = Bridge /\ prov[i].completion # "none"
       /\ outcome[i].state # "pending")
      => IF outcome[i].state = "fulfilled" /\ ~outcome[i].isError
           THEN outcome[i].hash \in Hashes
           ELSE outcome[i].isError /\ outcome[i].step \in Steps

\* C5: every progress event the provider has delivered to a bridge call has
\* been emitted to the caller as a progress notification.
C5_ProgressEmittedToCaller ==
  \A i \in Calls : notified[i] = prov[i].n

\* C6: the promise of a tool handler never rejects, and a settled failure is
\* a result marked isError that carries a message.
C6_NoFaultEscapes ==
  \A i \in Calls :
    /\ outcome[i].state # "rejected"
    /\ (outcome[i].state = "fulfilled" /\ outcome[i].hash = NoHash)
         => (outcome[i].isError /\ outcome[i].text # "")

\* the secrets tool t needs that are absent from the environment
secretMissing(t) ==
  \/ /\ t \in {Bridge, "swap_tokens_1inch", "transfer_eth", "transfer_erc20",
               "approve_token_spending"}
     /\ ~env.WALLET_PRIVATE_KEY
  \/ /\ t = "swap_tokens_1inch"
     /\ ~env.ONEINCH_API_KEY

\* C7: an invocation of a tool whose required secret is absent has returned
\* an error result and has issued no external call.
C7_MissingSecretNoIO ==
  \A i \in Calls :
    (tool[i] # "none" /\ secretMissing(tool[i]))
      => (/\ pc[i] = "done"
          /\ outcome[i].state = "fulfilled" /\ outcome[i].isError
          /\ io[i] = <<>>)

\* C7 witness: each of the five tools has been invoked with its secret absent
\* (one at a time), here the swap tool lacking only the aggregator key.
C7_Witness ==
  \E i \in Calls :
    /\ tool[i] = "swap_tokens_1inch"
    /\ env.WALLET_PRIVATE_KEY /\ ~env.ONEINCH_API_KEY
    /\ pc[i] = "done"

\* C8: a handle returned for a network argument is the handle memoized under
\* that argument's key, so all calls with the same argument return the same
\* handle; and a memoized entry is never replaced or removed.
C8_OneHandlePerKey ==
  /\ [](\A c \in Callers :
          ret[c].kind = "ok"
            => (/\ String(ret[c].ident) \in DOMAIN clientCache
                /\ clientCache[String(ret[c].ident)] = ret[c].handle))
  /\ [][\A k \in DOMAIN clientCache :
          k \in DOMAIN clientCache' /\ clientCache'[k] = clientCache[k]]_vars

\* C8 witness: two callers have called with the same argument and hold the
\* same handle.
C8_Witness ==
  \E c1, c2 \in Callers :
    /\ c1 # c2
    /\ ret[c1].kind = "ok" /\ ret[c2].kind = "ok"
    /\ ret[c1].ident = ret[c2].ident
    /\ ret[c1].handle = ret[c2].handle

\* C9: two successful getPublicClient calls whose arguments name the same
\* network return the same handle.
C9_OneHandlePerNetwork ==
  \A c1, c2 \in Callers :
    (/\ ret[c1].kind = "ok" /\ ret[c2].kind = "ok"
     /\ getChain(ret[c1].ident) = getChain(ret[c2].ident))
      => ret[c1].handle = ret[c2].handle

\* C10: a getPublicClient call that throws leaves the cache as it was, with
\* no entry for the key it was called with. (A step changes the result of
\* exactly the caller that made the call.)
C10_FailureLeavesCacheClean ==
  [][\A c \in Callers :
       (ret'[c] # ret[c] /\ ret'[c].kind = "threw")
         => (/\ clientCache' = clientCache
             /\ String(ret'[c].ident) \notin DOMAIN clientCache')]_vars

\* C10 witness: a call for a key threw and a later call for the same key
\* constructed and memoized a client (a key that is memoized cannot throw).
C10_Witness ==
  \E c \in Callers :
    /\ ret[c].kind = "threw"
    /\ String(ret[c].ident) \in DOMAIN clientCache

\* C11: a getWalletClient call that returns constructs a write client that no
\* earlier call returned and that is not in the read-client cache, and it
\* leaves the cache as it was whether it returns or throws; two callers never
\* hold the same write client; no cache entry is ever a write client.
C11_WalletClientNeverCached ==
  /\ [][\A c \in Callers :
          (ret'[c] # ret[c] /\ ret'[c].kind \in {"wallet", "walletThrew"})
            => (/\ clientCache' = clientCache
                /\ ret'[c].kind = "wallet"
                      => (/\ ret'[c].handle \notin wallets
                          /\ ret'[c].handle \in wallets'
                          /\ \A k \in DOMAIN clientCache :
                                clientCache[k] # ret'[c].handle))]_vars
  /\ [](\A c1, c2 \in Callers :
          (c1 # c2 /\ ret[c1].kind = "wallet" /\ ret[c2].kind = "wallet")
            => ret[c1].handle # ret[c2].handle)
  /\ [](\A k \in DOMAIN clientCache : clientCache[k] \notin wallets)

\* C11 witness: two callers called getWalletClient with the same network
\* argument while a read client for that network is memoized.
C11_Witness ==
  \E c1, c2 \in Callers :
    /\ c1 # c2
    /\ ret[c1].kind = "wallet" /\ ret[c2].kind = "wallet"
    /\ ret[c1].ident = ret[c2].ident
    /\ String(ret[c1].ident) \in DOMAIN clientCache

Swap == "swap_tokens_1inch"

\* C12: the signing key has been written to no shared place (the console, the
\* Across client singleton), and no entry of the read-client cache is a write
\* client, which holds the account derived from the key.
C12_KeyNeverShared ==
  /\ leaked = {}
  /\ \A k \in DOMAIN clientCache : clientCache[k] \notin wallets

\* C12 witness: a token transfer has been submitted: a read client is
\* memoized and a write client was built from the key.
C12_Witness ==
  \E i \in Calls :
    /\ tool[i] = "transfer_erc20" /\ pc[i] = "done"
    /\ outcome[i].hash \in Hashes
    /\ wallets # {} /\ DOMAIN clientCache # {}

\* C13: a swap call that received a swap response without a tx object, or
\* with a tx lacking to, data or value, has ended with the malformed-quote
\* error and has submitted no transaction.
C13_MalformedQuoteNotSubmitted ==
  \A i \in Calls :
    (/\ tool[i] = Swap /\ swap[i].quote # NoQuote
     /\ \/ ~swap[i].quote.tx \/ swap[i].quote.to = ""
        \/ swap[i].quote.data = "" \/ swap[i].quote.value = "undefined")
      => (/\ pc[i] = "done"
          /\ outcome[i] =
               ErrorResult("Invalid swap data received from 1inch (missing tx fields).")
          /\ swap[i].submitted = <<>>
          /\ \A k \in 1..Len(io[i]) : io[i][k] # "sendTransaction")

\* C13 witness: the response had a tx object with data and value but no to.
C13_Witness ==
  \E i \in Calls :
    /\ tool[i] = Swap /\ pc[i] = "done"
    /\ swap[i].quote.tx /\ swap[i].quote.to = ""
    /\ swap[i].quote.data # "" /\ swap[i].quote.value = "1000"

\* C14: a swap call whose amount is "0" has issued no external call.
C14_ZeroAmountRejected ==
  \A i \in Calls :
    (tool[i] = Swap /\ swap[i].amount = "0") => io[i] = <<>>

\* C15: a swap call whose slippage is below 0.01 or above 50 was answered
\* with an invalid-arguments error without any external call, and every
\* swap call that issued an external call has a slippage from 0.01 to 50.
C15_SlippageOutOfRangeRejected ==
  \A i \in Calls :
    tool[i] = Swap =>
      /\ (swap[i].slippage < 1 \/ swap[i].slippage > 5000)
           => (/\ pc[i] = "done" /\ io[i] = <<>>
               /\ outcome[i] = Escaped("Invalid arguments for tool")
               /\ swap[i].request = NoRequest)
      /\ io[i] # <<>> => (swap[i].slippage >= 1 /\ swap[i].slippage <= 5000)
      /\ swap[i].request # NoRequest
           => (swap[i].request.slippage >= 1 /\ swap[i].request.slippage <= 5000)

\* C15 witness: a call with slippage -1 has been answered.
C15_Witness ==
  \E i \in Calls : tool[i] = Swap /\ swap[i].slippage = -100 /\ pc[i] = "done"

\* C16: a swap call whose spender lookup failed has returned an error result
\* and has not waited, requested a swap quote or submitted a transaction, and
\* it does nothing afterwards.
C16_SpenderFailureStops ==
  /\ [](\A i \in Calls :
          (/\ tool[i] = Swap /\ swap[i].failure # NoFailure
           /\ swap[i].spenderAddress = "")
            => (/\ pc[i] = "done"
                /\ outcome[i].state = "fulfilled" /\ outcome[i].isError
                /\ io[i] = <<"GET /approve/spender">>
                /\ swap[i].waits = <<>>
                /\ swap[i].request = NoRequest
                /\ swap[i].submitted = <<>>))
  /\ [][\A i \in Calls :
          (tool[i] = Swap /\ pc[i] = "done")
            => (pc'[i] = pc[i] /\ io'[i] = io[i] /\ swap'[i] = swap[i]
                /\ outcome'[i] = outcome[i])]_vars

\* C16 witness: the spender lookup failed with a body that has a description.
C16_Witness ==
  \E i \in Calls :
    /\ tool[i] = Swap /\ pc[i] = "done"
    /\ swap[i].spenderAddress = ""
    /\ swap[i].failure.description # ""

\* the three external calls of a swap, in the order the handler issues them
SwapPipeline == <<"GET /approve/spender", "GET /swap", "sendTransaction">>

\* C17: the external calls of a swap call are a prefix of spender lookup,
\* swap request, submission; the swap request is issued only after the
\* spender lookup returned an address, the submission only after a swap
\* response that passed the payload test; a finished call has either returned
\* a transaction hash after all three stages or has failed, never both.
C17_StagesInOrder ==
  \A i \in Calls :
    tool[i] = Swap =>
      /\ Len(io[i]) <= 3
      /\ \A k \in 1..Len(io[i]) : io[i][k] = SwapPipeline[k]
      /\ Len(io[i]) >= 2 => swap[i].spenderAddress # ""
      /\ Len(io[i]) >= 3
           => (/\ swap[i].quote.tx /\ swap[i].quote.to # ""
               /\ swap[i].quote.data # "" /\ swap[i].quote.value # "undefined")
      /\ pc[i] = "done"
           => \/ /\ outcome[i].state = "fulfilled" /\ ~outcome[i].isError
                 /\ outcome[i].hash \in Hashes
                 /\ io[i] = SwapPipeline
              \/ /\ outcome[i].hash = NoHash
                 /\ \/ outcome[i].state = "fulfilled" /\ outcome[i].isError
                    \/ outcome[i].state = "rejected"
      /\ pc[i] # "done" => outcome[i] = Pending

\* C17 witness: a swap call went through all stages and returned a hash.
C17_Witness ==
  \E i \in Calls :
    /\ tool[i] = Swap /\ pc[i] = "done"
    /\ outcome[i].hash \in Hashes
    /\ io[i] = SwapPipeline

\* C18: a swap call has waited at most once; a call that has issued the swap
\* request has waited exactly once, for the fixed delay, after the spender
\* lookup (its only earlier external call) returned an address.
C18_OneDelayBeforeQuote ==
  \A i \in Calls :
    tool[i] = Swap =>
      /\ Len(swap[i].waits) <= 1
      /\ (\E k \in 1..Len(io[i]) : io[i][k] = "GET /swap")
           => (/\ swap[i].waits = <<[ms |-> SwapDelayMs, after |-> 1]>>
               /\ io[i][1] = "GET /approve/spender"
               /\ io[i][2] = "GET /swap"
               /\ swap[i].spenderAddress # "")

\* C18 witness: the swap request is in flight.
C18_Witness ==
  \E i \in Calls :
    tool[i] = Swap /\ pc[i] = "swap" /\ Len(swap[i].waits) = 1

\* C19: a swap call has submitted at most one transaction, and that
\* transaction has the to, data and value of the quoted tx; sendTransaction was
\* called exactly for it.
C19_OnlyTheSwapTransaction ==
  \A i \in Calls :
    tool[i] = Swap =>
      /\ Len(swap[i].submitted) <= 1
      /\ Cardinality({k \in 1..Len(io[i]) : io[i][k] = "sendTransaction"})
           = Len(swap[i].submitted)
      /\ \A k \in 1..Len(swap[i].submitted) :
           /\ swap[i].submitted[k].to = swap[i].quote.to
           /\ swap[i].submitted[k].data = swap[i].quote.data
           /\ swap[i].submitted[k].value = BigInt(swap[i].quote.value)
           /\ swap[i].submitted[k].data # "approve"

\* C19 witness: a swap from an ERC-20 token was submitted and returned a hash.
C19_Witness ==
  \E i \in Calls :
    /\ tool[i] = Swap /\ pc[i] = "done"
    /\ swap[i].src # NativeToken
    /\ outcome[i].hash \in Hashes
    /\ Len(swap[i].submitted) = 1

\* C20: the message of a swap call whose spender lookup or swap request
\* failed is the description of the response body if it has one, else the
\* body's error field if it has one, else the message of the transport error.
C20_FailureMessagePrefersBody ==
  \A i \in Calls :
    (tool[i] = Swap /\ swap[i].failure # NoFailure)
      => swap[i].detail =
           IF swap[i].failure.description # "" THEN swap[i].failure.description
           ELSE IF swap[i].failure.error # "" THEN swap[i].failure.error
           ELSE swap[i].failure.message

\* the initializations whose executor is running
InFlight == {p \in InitIds : mgr.stage[p] \in {"connecting", "tools"}}

\* C29: at most one initialization is in flight; a getClient call made while
\* one is in flight starts none and waits for the promise of that one; and
\* once an initialization has succeeded no step starts another or replaces
\* or clears the client.
C29_InitializedOnce ==
  /\ [](Cardinality(InFlight) <= 1)
  /\ [][\A c \in Callers :
          (getter[c].pc # "waiting" /\ getter'[c] # getter[c] /\ InFlight # {})
            => (/\ mgr' = mgr
                /\ getter'[c].pc = "waiting"
                /\ getter'[c].awaiting \in InFlight)]_vars
  /\ [][(\E p \in InitIds : mgr.stage[p] = "succeeded")
          => (/\ mgr'.started = mgr.started
              /\ mgr'.mcpClient = mgr.mcpClient /\ mgr'.mcpClient # 0)]_vars

\* C29 witness: after a failed initialization a second one is in flight with
\* its client created, and two callers wait for it.
C29_Witness ==
  \E c1, c2 \in Callers :
    /\ c1 # c2
    /\ mgr.stage[1] = "failed" /\ mgr.stage[2] = "tools"
    /\ getter[c1].pc = "waiting" /\ getter[c1].awaiting = 2
    /\ getter[c2].pc = "waiting" /\ getter[c2].awaiting = 2

\* C21: within one invocation of the bridge tool or the swap tool no external
\* call is issued twice, whatever the calls returned.
C21_NoRetry ==
  \A i \in Calls :
    tool[i] \in {Bridge, Swap}
      => \A k1, k2 \in 1..Len(io[i]) : k1 # k2 => io[i][k1] # io[i][k2]

\* C21 witness: a swap invocation whose swap request failed has returned
\* after one spender lookup and one swap request.
C21_Witness ==
  \E i \in Calls :
    /\ tool[i] = Swap /\ pc[i] = "done" /\ outcome[i].isError
    /\ io[i] = <<"GET /approve/spender", "GET /swap">>
    /\ swap[i].failure # NoFailure

C24_InvalidAmountBeforeIO ==
  [][\A i \in Calls :
       (\/ \E toKind \in AddressKinds, walletOk \in BOOLEAN :
             TransferEthStart(i, toKind, walletOk, FALSE)
        \/ \E walletOk \in BOOLEAN : TransferEthResolved(i, TRUE, walletOk, FALSE)
        \/ \E walletOk \in BOOLEAN : Erc20SymbolRead(i, TRUE, FALSE, walletOk))
         => io'[i] = <<>>]_vars

\* C25: the amount a token operation returns satisfies raw =
\* parse(formatted, decimals) and formatted = format(raw, decimals).
C25_TokenAmountRoundTrip ==
  amt.stage = "returned"
    => (/\ amt.raw = parseUnits(amt.formatted, amt.decimals)
        /\ amt.formatted = formatUnits(amt.raw, amt.decimals))

\* C26: a resolve_ens call whose input contains no dot has returned the
\* "not a valid ENS name" error result, has contacted nothing and has not
\* called resolveAddress.
C26_UndottedNameRejected ==
  \A i \in Slots :
    (tool[i] = "resolve_ens" /\ ~includes(ens[i].ensName, "."))
      => /\ pc[i] = "done"
         /\ outcome[i] =
              ErrorResult("Error: Input is not a valid ENS name. ENS names must contain a dot")
         /\ io[i] = <<>>
         /\ ~ens[i].resolveAddressCalled

\* an undotted name was rejected while a dotted one is being looked up
C26_Witness ==
  \E i, j \in Slots :
    /\ tool[i] = "resolve_ens" /\ ens[i].ensName = <<"0", "x">> /\ pc[i] = "done"
    /\ tool[j] = "resolve_ens" /\ ens[j].resolveAddressCalled

\* C27: the amount parameter of every swap request sent to the swap endpoint
\* is exactly the amount string the caller passed.
C27_AmountForwardedVerbatim ==
  \A i \in Calls :
    swap[i].request # NoRequest => swap[i].request.amount = swap[i].amount

\* a swap request for the amount "1000" was sent
C27_Witness ==
  \E i \in Calls :
    /\ tool[i] = Swap
    /\ swap[i].amount = "1000"
    /\ swap[i].request # NoRequest
    /\ "GET /swap" \in {io[i][k] : k \in 1..Len(io[i])}

\* C30: a bridge call between two known chains of which the origin or the
\* destination is not mainnet (1), Optimism (10) or Arbitrum (42161) returns
\* an error result in its first step: no quote is requested, no wallet client
\* is built and no deposit is attempted.
C30_OnlyWethChainsBridged ==
  [][\A i \in Calls, origin \in BridgeNetworks, destination \in BridgeNetworks,
        amountParses \in BOOLEAN :
       (/\ BridgeStart(i, origin, destination, amountParses)
        /\ ~getChainThrows(Str(origin))
        /\ ~getChainThrows(Str(destination))
        /\ \/ getChain(Str(origin)) \notin {1, 10, 42161}
           \/ getChain(Str(destination)) \notin {1, 10, 42161})
         => /\ pc'[i] = "done"
            /\ outcome'[i].state = "fulfilled"
            /\ outcome'[i].isError
            /\ outcome'[i].hash = NoHash
            /\ io'[i] = <<>>
            /\ wallets' = wallets
            /\ prov'[i] = NoProvider]_vars

\* a bridge call from a chain without WETH ended with the error result
C30_Witness ==
  \E i \in Calls :
    /\ tool[i] = Bridge
    /\ pc[i] = "done"
    /\ outcome[i] = ErrorResult("WETH address not configured for origin chain ID")
    /\ io[i] = <<>>

\* what belongs to invocation i: its handler's position, promise, external
\* calls, provider and locals
Invocation(i) == <<tool[i], pc[i], outcome[i], io[i], prov[i], swap[i]>>

\* C28: while an invocation is suspended in the swap delay or waits for
\* provider events, every other invocation that has not ended can take a
\* step; and no step (a progress event, a failure, a settled request of one
\* invocation) changes the position, the outcome or the locals of another
\* invocation.
C28_InvocationsIndependent ==
  /\ [](\A i, j \in Slots :
         (i # j /\ pc[i] \in {"delay", "executeQuote"} /\ pc[j] # "done")
           => ENABLED Step(j))
  /\ [][\A i, j \in Slots :
          i # j => (Invocation(i)' = Invocation(i) \/ Invocation(j)' = Invocation(j))]_vars

\* a bridge ended with its deposit hash and a failed one with its rejection
\* while a swap is still suspended in its delay, unsettled
C28_Witness ==
  \E i, j \in Slots :
    /\ tool[i] = Swap /\ pc[i] = "delay" /\ outcome[i] = Pending
    /\ tool[j] = Bridge /\ pc[j] = "done"
    /\ outcome[j].state = "fulfilled" /\ outcome[j].hash = "0xaa"
    /\ prov[j].n > 0

\* C31: the only step in which a bridge call becomes successful is the
\* delivery of a deposit success event that carries a transaction hash, and
\* the hash of the result is the hash of that event; the delivery of an
\* approve or fill success event leaves the outcome as it was.
C31_SuccessOnlyOnDepositHash ==
  [][\A i \in Calls :
       /\ (/\ outcome[i].state = "pending"
           /\ outcome'[i].state = "fulfilled" /\ ~outcome'[i].isError)
            => \E h \in Hashes :
                 OnProgress(i, DepositSuccess(h)) /\ outcome'[i].hash = h
       /\ \A progress \in ProgressEvents :
            (/\ progress.step \in {"approve", "fill"}
             /\ progress.status = "txSuccess"
             /\ OnProgress(i, progress))
              => outcome'[i] = outcome[i]]_vars

\* a call that received more than one event and resolved with the hash 0xbb
\* while executeQuote is still running
C31_Witness ==
  \E i \in Calls :
    /\ tool[i] = Bridge /\ pc[i] = "executeQuote"
    /\ prov[i].n >= 2
    /\ outcome[i].state = "fulfilled" /\ ~outcome[i].isError
    /\ outcome[i].hash = "0xbb"

\* C32: every bridge call that has reached executeQuote eventually settles,
\* whenever the promise of executeQuote eventually completes.
C32_ExecuteQuoteCallSettles ==
  \A i \in Calls :
    (tool[i] = Bridge /\ pc[i] = "executeQuote")
      ~> (outcome[i].state # "pending")

\* C33: a deposit success event without a transaction hash that is delivered
\* to a bridge call that has not settled makes the call fail with an error
\* outcome, and a call that failed this way never changes to a success.
C33_DepositWithoutHashFails ==
  [][\A i \in Calls :
       /\ (OnProgress(i, DepositSuccess(NoHash)) /\ outcome[i].state = "pending")
            => /\ outcome'[i].state = "rejected"
               /\ outcome'[i].isError
               /\ outcome'[i].hash = NoHash
               /\ outcome'[i].text =
                    "Deposit transaction successful but no transaction hash found."
       /\ outcome[i].text =
            "Deposit transaction successful but no transaction hash found."
            => outcome'[i] = outcome[i]]_vars

\* a call failed on a deposit success without a hash, received further
\* events afterwards and saw executeQuote resolve
C33_Witness ==
  \E i \in Calls :
    /\ tool[i] = Bridge /\ pc[i] = "done"
    /\ outcome[i].text =
         "Deposit transaction successful but no transaction hash found."
    /\ outcome[i].state = "rejected"
    /\ prov[i].n >= 2 /\ prov[i].completion = "resolved"

\* C34: while the latest initialization is a failed one the manager has no
\* client, no tools and isInitializing false; a getClient call that waited
\* for a failed initialization returns undefined; and the next getClient
\* call after a failure starts a new initialization.
C34_FailedInitializationRecovers ==
  /\ []((mgr.started > 0 /\ mgr.stage[mgr.started] = "failed")
          => (mgr.mcpClient = 0 /\ ~mgr.tools /\ ~mgr.isInitializing))
  /\ [][\A c \in Callers :
          /\ (GetClientResumes(c) /\ mgr.stage[getter[c].awaiting] = "failed")
               => getter'[c].result = 0
          /\ (/\ GetClient(c)
              /\ mgr.started > 0 /\ mgr.stage[mgr.started] = "failed")
               => /\ mgr'.started = mgr.started + 1
                  /\ mgr'.stage[mgr'.started] = "connecting"
                  /\ mgr'.isInitializing]_vars

\* tool listing failed for the first initialization, its waiter got
\* undefined, and a second initialization is connecting
C34_Witness ==
  \E c \in Callers :
    /\ mgr.stage[1] = "failed" /\ mgr.stage[2] = "connecting"
    /\ getter[c].pc = "returned" /\ getter[c].result = 0

\* C35: whenever a getClient call has returned a defined client, the getTools
\* call that follows it in the request handler has returned the loaded tool
\* list.
C35_ClientReturnedWithTools ==
  \A c \in Callers :
    (getter[c].pc = "returned" /\ getter[c].result # 0) => getter[c].tools

\* one request got the client of the second initialization with its tools
\* after another request got undefined from the failed first one
C35_Witness ==
  \E c1, c2 \in Callers :
    /\ mgr.stage[1] = "failed" /\ mgr.stage[2] = "succeeded"
    /\ getter[c1].pc = "returned" /\ getter[c1].result = 0
    /\ getter[c2].pc = "returned" /\ getter[c2].result = 2 /\ getter[c2].tools

\* C36: every getAcrossClient call has returned the instance of the first
\* construction, which is the one the module holds, and no second client was
\* ever constructed.
C36_OneAcrossClient ==
  /\ acrossClientInstance \in {0, 1}
  /\ \A c \in Callers :
       ret[c].kind = "across"
         => (ret[c].handle = 1 /\ acrossClientInstance = ret[c].handle)

\* two callers hold the result of getAcrossClient
C36_Witness ==
  \E c1, c2 \in Callers :
    /\ c1 # c2
    /\ ret[c1].kind = "across" /\ ret[c2].kind = "across"
    /\ ret[c1].handle = ret[c2].handle
    /\ clientCache # <<>>

\* C37: a token transfer or approval has submitted at most one transaction,
\* as its last external call, directly after the reads of decimals and of
\* symbol, which follow the name lookups; and a step of such a call that
\* does not submit the transaction builds no wallet client.
C37_OneTransactionAfterReads ==
  /\ [](\A i \in Calls :
         tool[i] \in TransferTools
           => \A k \in 1..Len(io[i]) :
                /\ io[i][k] = "writeContract"
                     => /\ k = Len(io[i]) /\ k >= 3
                        /\ io[i][k - 1] = "read symbol"
                /\ io[i][k] = "read symbol"
                     => k >= 2 /\ io[i][k - 1] = "read decimals"
                /\ io[i][k] = "read decimals"
                     => k <= 3 /\ \A j \in 1..(k - 1) : io[i][j] = "ens lookup")
  /\ [][\A i \in Calls :
          (tool'[i] \in TransferTools /\ pc'[i] # pc[i] /\ pc'[i] # "erc20Write")
            => wallets' = wallets]_vars

\* a token operation that looked up two names, read decimals and symbol and
\* submitted its transaction, which succeeded
C37_Witness ==
  \E i \in Calls :
    /\ tool[i] \in TransferTools /\ pc[i] = "done"
    /\ io[i] = <<"ens lookup", "ens lookup", "read decimals", "read symbol",
                 "writeContract">>
    /\ outcome[i].hash \in Hashes
    /\ wallets # {}

\* what C38 says about a change of the message list: after a user message
\* the view is at the bottom and the flag is false; after any other message
\* the view is at the bottom if the flag was false and where it was if the
\* flag was true
AutoScrollOnChange ==
  \A role \in Roles, rows \in {0, 1} :
    MessagesChange(role, rows)
      => IF role = "user"
           THEN /\ page'.scrollTop = maxScrollTop(page')
                /\ ~page'.userHasManuallyScrolled
           ELSE /\ page'.userHasManuallyScrolled = page.userHasManuallyScrolled
                /\ IF page.userHasManuallyScrolled
                     THEN page'.scrollTop = page.scrollTop
                     ELSE page'.scrollTop = maxScrollTop(page')

\* C38 as stated: the auto-scroll rule holds at every change of the message
\* list, and the manual-scroll flag is true exactly when the last scroll
\* event left the viewport away from the bottom.
C38_AutoScroll ==
  /\ [](page.userHasManuallyScrolled <=> page.lastScroll = "away")
  /\ [][AutoScrollOnChange]_vars

\* C38 amended: the same, where the flag is true exactly when the last
\* scroll event left the viewport away from the bottom and the effect has
\* not reset the flag for a user message since that event.
C38_AutoScrollUntilReset ==
  /\ [](page.userHasManuallyScrolled
          <=> (page.lastScroll = "away" /\ ~page.resetSince))
  /\ [][AutoScrollOnChange]_vars

\* the user has scrolled up, the flag is set, and an assistant message grew
\* below the view, which stayed where it was
C38_Witness ==
  /\ page.last = "assistant"
  /\ page.userHasManuallyScrolled /\ page.lastScroll = "away"
  /\ ~page.scrollPending
  /\ page.scrollTop = 0 /\ page.scrollHeight >= ClientHeight + 3

====
